---- MODULE Spec2Model ----
(***************************************************************************)
(* A model of the trade-signal governance pipeline of                      *)
(* Trade-Model-Consideration:                                              *)
(*   - RiskExecutionProtocol   (control_logic/risk_execution_protocol.py)  *)
(*   - RateLimiter, PacketSanitizer, TradeCoordinator                      *)
(*                             (control_logic/trade_coordinator.py)        *)
(*   - SignalIsolationSystem   (control_logic/signal_isolation_system.py)  *)
(*   - vix_whipsaw_filter      (helpers/vix_whipsaw_filter.py)             *)
(*   - the allocation rules    (enforcer/enforce_allocation_rules_fullSet) *)
(*                                                                         *)
(* Units.  Fractions of equity (position sizes, pnl, loss totals) are      *)
(* integers in basis points: 0.015 is 150, 0.20 is 2000.  Confidence       *)
(* multipliers are in hundredths: 0.65 is 65.  On these grids the float    *)
(* comparisons of the source agree with the integer comparisons below.     *)
(* Wall-clock time of the protocol (datetime.utcnow) is counted in units   *)
(* of 30 minutes, so one hour is 2 units and one day is 48.                *)
(***************************************************************************)
EXTENDS Integers, Sequences, FiniteSets, TLC

VARIABLES
    \* ---- RiskExecutionProtocol fields
    account_equity,
    daily_loss_total,
    trade_history,
    last_trade_time,
    execution_frozen,
    throttle_mode,
    locked_due_to_freq,
    trade_timestamps,
    \* ---- the clock datetime.utcnow() reads, and the last call with its result
    utc,
    rep_call,
    \* ---- RateLimiter fields, the clock time.time() reads, the last allow() result
    timestamps,
    max_packets_per_sec,
    burst_limit,
    clock,
    rl_ret,
    \* ---- SignalIsolationSystem fields, the last call with its result, and the
    \* ---- calls made so far without what identifies the signal or the caller
    override_enabled,
    override_log,
    execution_log,
    sis_call,
    sis_trace,
    \* ---- TradeCoordinator fields, and the last process_signal call with its result
    decision_log,
    symbol_registry,
    split_log,
    split_call,
    last_safe_trade_time,
    tc_call,
    \* ---- vix_whipsaw_filter: the series, the state dict, the last call and result
    vix_data,
    state,
    current_date,
    vix_ret,
    \* ---- allocation rules: the caller's dicts and the last call made on them
    bin_weights,
    bin_metadata,
    constraints,
    fixed_assignments,
    alloc_call,
    bin_status_log,
    bin_alert_state,
    rule_call,
    \* ---- callers of record_trade: the line each is at, its arguments and
    \* locals, whether calls are serialised, and what an interleaving produced
    pc,
    frame,
    mutex,
    late_entry,
    calls

repVars == <<account_equity, daily_loss_total, trade_history, last_trade_time,
             execution_frozen, throttle_mode, locked_due_to_freq,
             trade_timestamps, utc, rep_call>>

raceVars == <<pc, frame, mutex, late_entry, calls>>

repFields == <<account_equity, daily_loss_total, trade_history, last_trade_time,
               execution_frozen, throttle_mode, locked_due_to_freq,
               trade_timestamps>>

rlVars == <<timestamps, max_packets_per_sec, burst_limit, rl_ret>>

sisVars == <<override_enabled, override_log, execution_log, sis_call, sis_trace>>

tcVars == <<decision_log, symbol_registry, split_log, split_call, last_safe_trade_time,
            tc_call>>

vixVars == <<vix_data, state, current_date, vix_ret>>

ruleVars == <<bin_status_log, bin_alert_state, rule_call>>

allocVars == <<bin_weights, bin_metadata, constraints, fixed_assignments, alloc_call, ruleVars>>

vars == <<repVars, raceVars, rlVars, clock, sisVars, tcVars, vixVars, allocVars>>

\* ------------------------------------------------------------------ bounds

\* trade_history is never longer than this in the explored runs
MaxHistory == 3
\* the protocol clock stops advancing here
MaxClock == 1
\* the rate limiter's window is never longer than this in the explored runs
MaxWindow == 12
\* decision_log is never longer than this in the explored runs
MaxDecisions == 2
\* decision_log is never longer than this in the runs of approvals
MaxApprovals == 5
\* split_log is never longer than this in the explored runs
MaxSplits == 3
\* time.time() advances at most this far (in 1/100 s) in a coordinator run
MaxElapsed == 9041
\* and at most this far in a run of the rate limiter alone
MaxRLElapsed == 220
\* a SignalIsolationSystem is called at most this many times in the explored runs
MaxSisCalls == 3
\* trade_history is never longer than this in the runs that count primary entries
MaxEntries == 8
\* the protocol clock stops advancing here in those runs
MaxEntryClock == 2
\* the protocol clock stops advancing here (in half hours) in the runs that
\* span more than a day
MaxDayClock == 50
\* the two interleaved callers make at most this many record_trade calls
MaxRaceCalls == 3
\* every packet field but the payload prints in at most this many characters
ShortFieldLen == 64
\* the volatility series covers at most this many consecutive calendar days
MaxDays == 3

\* ------------------------------------------------------- helper operators

None == -1

Abs(x) == IF x < 0 THEN -x ELSE x

\* ----------------------------------------------- strings as character tuples

\* str.lower() on the characters the tags use
LowerChar(c) ==
    CASE c = "A" -> "a" [] c = "B" -> "b" [] c = "C" -> "c" [] c = "D" -> "d"
      [] c = "E" -> "e" [] c = "F" -> "f" [] c = "G" -> "g" [] c = "H" -> "h"
      [] c = "I" -> "i" [] c = "L" -> "l" [] c = "M" -> "m" [] c = "O" -> "o"
      [] c = "R" -> "r" [] c = "S" -> "s" [] c = "T" -> "t" [] c = "W" -> "w"
      [] OTHER -> c

Lower(s) == [i \in 1..Len(s) |-> LowerChar(s[i])]

\* Python's  sub in s  for strings
Contains(s, sub) ==
    \E i \in 0..(Len(s) - Len(sub)) :
        \A j \in 1..Len(sub) : s[i + j] = sub[j]

\* ------------------------------------------------ RiskExecutionProtocol

max_daily_drawdown_pct == 400
max_trade_drawdown_pct == 150
throttle_trigger_pct == 250

SecondsPerHour == 2
SecondsPerDay == 48

_define_tier(equity) ==
    IF equity < 2000 THEN "low"
    ELSE IF equity < 25000 THEN "retail"
    ELSE "pro"

tier == _define_tier(account_equity)

max_position_size_pct ==
    IF tier = "low" THEN 1500
    ELSE IF tier = "retail" THEN 2000
    ELSE 2500

max_trades_per_hour ==
    IF tier = "low" THEN 8
    ELSE IF tier = "retail" THEN 6
    ELSE 4

_risk_scaling_from_confidence(classification) ==
    LET tag == Lower(classification) IN
    IF Contains(tag, <<"a", "_">>) \/ Contains(tag, <<"h", "i", "g", "h">>) THEN 100
    ELSE IF Contains(tag, <<"b", "_">>) \/ Contains(tag, <<"m", "e", "d">>) THEN 65
    ELSE IF Contains(tag, <<"c", "_">>) \/ Contains(tag, <<"l", "o", "w">>) THEN 40
    ELSE 25

ExceedsScaledLimit_AtLimit(classification, position_size_pct) ==
    position_size_pct * 100 >=
        max_position_size_pct * _risk_scaling_from_confidence(classification)

\* position_size_pct > max_position_size_pct * scale_factor
ExceedsScaledLimit(classification, position_size_pct) ==
    position_size_pct * 100 >
        max_position_size_pct * _risk_scaling_from_confidence(classification)

RiskExecutionProtocol__init__(equity) ==
    /\ account_equity = equity
    /\ daily_loss_total = 0
    /\ trade_history = <<>>
    /\ last_trade_time = None
    /\ execution_frozen = FALSE
    /\ throttle_mode = FALSE
    /\ locked_due_to_freq = FALSE
    /\ trade_timestamps = <<>>

\* the sliding window:  [t for t in trade_timestamps if (now - t).seconds < 3600]
\* (timedelta.seconds is the seconds-of-day component of the difference)
WindowFilter_KeepAll(ts, now) == ts

WindowFilter(ts, now) ==
    SelectSeq(ts, LAMBDA t : ((now - t) % SecondsPerDay) < SecondsPerHour)

IsPrimaryEntry(trade_type, operation_type) ==
    trade_type = "entry" /\ operation_type = "primary"

FrozenRejects_GateMissing(trade_type, operation_type) == FALSE

FrozenRejects_WhenLocked(trade_type, operation_type) ==
    locked_due_to_freq /\ IsPrimaryEntry(trade_type, operation_type)

\* line 91: the frozen gate of record_trade
FrozenRejects(trade_type, operation_type) ==
    execution_frozen /\ IsPrimaryEntry(trade_type, operation_type)

TradeLossExceeded_DailyLimit(pnl_pct) == pnl_pct < -max_daily_drawdown_pct

\* line 115
TradeLossExceeded(pnl_pct) == pnl_pct < -max_trade_drawdown_pct

DailyLossExceeded_Never(total) == FALSE

\* line 119
DailyLossExceeded(total) == Abs(total) > max_daily_drawdown_pct

\* line 123
ThrottleTriggered(total) == Abs(total) > throttle_trigger_pct

NoStatus == <<>>

Call(op, pnl, size, tt, ot, cls, ok, msg, status) ==
    [op |-> op, pnl_pct |-> pnl, position_size_pct |-> size, trade_type |-> tt,
     operation_type |-> ot, classification |-> cls, ok |-> ok, msg |-> msg,
     status |-> status]

\* the pure check of lines 74-88, as <<is_allowed, message>>
validate_trade_request(classification, position_size_pct) ==
    IF execution_frozen THEN <<FALSE, "Execution frozen. Trade denied.">>
    ELSE IF ExceedsScaledLimit(classification, position_size_pct)
         THEN <<FALSE, "Position exceeds scaled limit">>
         ELSE <<TRUE, "Trade permitted.">>

ValidateTradeRequest_Freezes(classification, position_size_pct) ==
    LET r == validate_trade_request(classification, position_size_pct) IN
    /\ rep_call' = Call("validate_trade_request", 0, position_size_pct, "", "",
                        classification, r[1], r[2], NoStatus)
    /\ execution_frozen' = (execution_frozen \/ ~r[1])
    /\ UNCHANGED <<account_equity, daily_loss_total, trade_history, last_trade_time,
                   throttle_mode, locked_due_to_freq, trade_timestamps, utc>>

\* lines 74-88, called on the protocol
ValidateTradeRequest(classification, position_size_pct) ==
    LET r == validate_trade_request(classification, position_size_pct) IN
    /\ rep_call' = Call("validate_trade_request", 0, position_size_pct, "", "",
                        classification, r[1], r[2], NoStatus)
    /\ UNCHANGED <<repFields, utc>>

\* lines 90-126; trade_history holds fewer than limit trades when one is appended
record_trade_bounded(limit, pnl_pct, position_size_pct, trade_type, operation_type, classification) ==
    LET primary == IsPrimaryEntry(trade_type, operation_type)
        now == utc
        window == IF primary
                  THEN WindowFilter(Append(trade_timestamps, now), now)
                  ELSE trade_timestamps
        total == daily_loss_total + (IF pnl_pct < 0 THEN pnl_pct ELSE 0)
        \* the call as observed: its arguments and the message returned
        Ret(msg) == rep_call' = Call("record_trade", pnl_pct, position_size_pct,
                                     trade_type, operation_type, classification,
                                     FALSE, msg, NoStatus)
    IN
    IF FrozenRejects(trade_type, operation_type) THEN
        /\ Ret("Execution frozen. No further primary entries allowed.")
        /\ UNCHANGED <<repFields, utc>>
    ELSE IF primary /\ Len(window) > max_trades_per_hour THEN
        /\ trade_timestamps' = window
        /\ execution_frozen' = TRUE
        /\ locked_due_to_freq' = TRUE
        /\ Ret("Entry frequency exceeded. New primary entries blocked.")
        /\ UNCHANGED <<account_equity, daily_loss_total, trade_history,
                       last_trade_time, throttle_mode, utc>>
    ELSE IF primary /\ ExceedsScaledLimit(classification, position_size_pct) THEN
        /\ trade_timestamps' = window
        /\ execution_frozen' = TRUE
        /\ Ret("Trade size too large. Execution frozen.")
        /\ UNCHANGED <<account_equity, daily_loss_total, trade_history,
                       last_trade_time, throttle_mode, locked_due_to_freq, utc>>
    ELSE
        /\ Len(trade_history) < limit
        /\ trade_timestamps' = window
        /\ trade_history' = Append(trade_history, pnl_pct)
        /\ daily_loss_total' = total
        /\ last_trade_time' = now
        /\ IF TradeLossExceeded(pnl_pct) THEN
               /\ execution_frozen' = TRUE
               /\ Ret("Trade loss exceeded limit. Execution frozen.")
               /\ UNCHANGED throttle_mode
           ELSE IF DailyLossExceeded(total) THEN
               /\ execution_frozen' = TRUE
               /\ Ret("Daily loss limit exceeded. Execution frozen.")
               /\ UNCHANGED throttle_mode
           ELSE
               /\ throttle_mode' = (ThrottleTriggered(total) \/ throttle_mode)
               /\ Ret("Trade recorded.")
               /\ UNCHANGED execution_frozen
        /\ UNCHANGED <<account_equity, locked_due_to_freq, utc>>

record_trade(pnl_pct, position_size_pct, trade_type, operation_type, classification) ==
    record_trade_bounded(MaxHistory, pnl_pct, position_size_pct, trade_type,
                         operation_type, classification)

should_throttle ==
    /\ rep_call' = Call("should_throttle", 0, 0, "", "", <<>>,
                        throttle_mode /\ ~execution_frozen, "", NoStatus)
    /\ UNCHANGED <<repFields, utc>>

reset_daily_risk_KeepsLock ==
    /\ daily_loss_total' = 0
    /\ trade_history' = <<>>
    /\ trade_timestamps' = <<>>
    /\ execution_frozen' = FALSE
    /\ throttle_mode' = FALSE
    /\ rep_call' = Call("reset_daily_risk", 0, 0, "", "", <<>>, FALSE,
                        "Risk counters reset. Execution re-enabled.", NoStatus)
    /\ UNCHANGED <<account_equity, last_trade_time, utc, locked_due_to_freq>>

\* lines 131-138
reset_daily_risk ==
    /\ daily_loss_total' = 0
    /\ trade_history' = <<>>
    /\ trade_timestamps' = <<>>
    /\ execution_frozen' = FALSE
    /\ throttle_mode' = FALSE
    /\ locked_due_to_freq' = FALSE
    /\ rep_call' = Call("reset_daily_risk", 0, 0, "", "", <<>>, FALSE,
                        "Risk counters reset. Execution re-enabled.", NoStatus)
    /\ UNCHANGED <<account_equity, last_trade_time, utc>>

get_status ==
    /\ rep_call' = Call("get_status", 0, 0, "", "", <<>>, FALSE, "",
                        <<account_equity, tier, daily_loss_total, Len(trade_history),
                          execution_frozen, throttle_mode, locked_due_to_freq,
                          Len(trade_timestamps)>>)
    /\ UNCHANGED <<repFields, utc>>

\* time passes between calls, up to limit
TickUntil(limit, d) ==
    /\ utc + d <= limit
    /\ utc' = utc + d
    /\ rep_call' = Call("tick", 0, 0, "", "", <<>>, FALSE, "", NoStatus)
    /\ UNCHANGED repFields

Tick(d) == TickUntil(MaxClock, d)

\* ---- record_trade statement by statement, two callers on one protocol
\* The source holds no lock.  A caller is at the line it runs next; frame holds
\* its arguments and its local now.  mutex says whether the callers serialise
\* their calls on the account; late_entry records that a primary entry reached
\* trade_history while execution_frozen was already true.

Threads == {1, 2}

NoFrame ==
    [pnl_pct |-> 0, position_size_pct |-> 0, trade_type |-> "", operation_type |-> "",
     classification |-> <<>>, now |-> None]

IdleCallers ==
    /\ pc = [t \in Threads |-> "idle"]
    /\ frame = [t \in Threads |-> NoFrame]
    /\ mutex = TRUE
    /\ late_entry = FALSE
    /\ calls = 0

\* under mutual exclusion a caller runs only while no other call is under way
MayRun(t) == mutex => \A o \in Threads \ {t} : pc[o] = "idle"

Primary(t) == IsPrimaryEntry(frame[t].trade_type, frame[t].operation_type)

Return(t, msg) ==
    /\ pc' = [pc EXCEPT ![t] = "idle"]
    /\ rep_call' = Call("record_trade", frame[t].pnl_pct, frame[t].position_size_pct,
                        frame[t].trade_type, frame[t].operation_type,
                        frame[t].classification, FALSE, msg, NoStatus)

\* line 90: a caller enters record_trade
Enter(t, pnl_pct, position_size_pct, trade_type, operation_type, classification) ==
    /\ pc[t] = "idle"
    /\ MayRun(t)
    /\ calls < MaxRaceCalls
    /\ calls' = calls + 1
    /\ frame' = [frame EXCEPT ![t] =
                    [pnl_pct |-> pnl_pct, position_size_pct |-> position_size_pct,
                     trade_type |-> trade_type, operation_type |-> operation_type,
                     classification |-> classification, now |-> None]]
    /\ pc' = [pc EXCEPT ![t] = "L91"]
    /\ UNCHANGED <<repFields, utc, rep_call, mutex, late_entry>>

\* lines 91-126: the caller runs the statement it is at
record_trade_line(t) ==
    /\ MayRun(t)
    /\ \/ \* line 91: the frozen gate passed
           /\ pc[t] = "L91"
           /\ ~FrozenRejects(frame[t].trade_type, frame[t].operation_type)
           /\ pc' = [pc EXCEPT ![t] = "L94"]
           /\ UNCHANGED <<repFields, utc, rep_call, frame, mutex, late_entry, calls>>
       \/ \* line 92
           /\ pc[t] = "L91"
           /\ FrozenRejects(frame[t].trade_type, frame[t].operation_type)
           /\ Return(t, "Execution frozen. No further primary entries allowed.")
           /\ UNCHANGED <<repFields, utc, frame, mutex, late_entry, calls>>
       \/ \* lines 94-95
           /\ pc[t] = "L94"
           /\ frame' = [frame EXCEPT ![t].now = utc]
           /\ pc' = [pc EXCEPT ![t] = IF Primary(t) THEN "L96" ELSE "L111"]
           /\ UNCHANGED <<account_equity, daily_loss_total, trade_history, last_trade_time, execution_frozen, throttle_mode,
                          locked_due_to_freq, trade_timestamps, utc, mutex, calls, late_entry, rep_call>>
       \/ \* line 96
           /\ pc[t] = "L96"
           /\ trade_timestamps' = Append(trade_timestamps, frame[t].now)
           /\ pc' = [pc EXCEPT ![t] = "L97"]
           /\ UNCHANGED <<account_equity, daily_loss_total, trade_history, last_trade_time, execution_frozen, throttle_mode,
                          locked_due_to_freq, utc, mutex, calls, frame, late_entry, rep_call>>
       \/ \* line 97
           /\ pc[t] = "L97"
           /\ trade_timestamps' = WindowFilter(trade_timestamps, frame[t].now)
           /\ pc' = [pc EXCEPT ![t] = "L99"]
           /\ UNCHANGED <<account_equity, daily_loss_total, trade_history, last_trade_time, execution_frozen, throttle_mode,
                          locked_due_to_freq, utc, mutex, calls, frame, late_entry, rep_call>>
       \/ \* line 99
           /\ pc[t] = "L99"
           /\ pc' = [pc EXCEPT ![t] = IF Len(trade_timestamps) > max_trades_per_hour THEN "L100" ELSE "L104"]
           /\ UNCHANGED <<account_equity, daily_loss_total, trade_history, last_trade_time, execution_frozen, throttle_mode, locked_due_to_freq,
                          trade_timestamps, utc, mutex, calls, frame, late_entry, rep_call>>
       \/ \* line 100
           /\ pc[t] = "L100"
           /\ execution_frozen' = TRUE
           /\ pc' = [pc EXCEPT ![t] = "L101"]
           /\ UNCHANGED <<account_equity, daily_loss_total, trade_history, last_trade_time, throttle_mode, locked_due_to_freq,
                          trade_timestamps, utc, mutex, calls, frame, late_entry, rep_call>>
       \/ \* line 101
           /\ pc[t] = "L101"
           /\ locked_due_to_freq' = TRUE
           /\ pc' = [pc EXCEPT ![t] = "L102"]
           /\ UNCHANGED <<account_equity, daily_loss_total, trade_history, last_trade_time, execution_frozen, throttle_mode,
                          trade_timestamps, utc, mutex, calls, frame, late_entry, rep_call>>
       \/ \* line 102
           /\ pc[t] = "L102"
           /\ Return(t, "Entry frequency exceeded. New primary entries blocked.")
           /\ UNCHANGED <<account_equity, daily_loss_total, trade_history, last_trade_time, execution_frozen, throttle_mode,
                          locked_due_to_freq, trade_timestamps, utc, mutex, calls, frame, late_entry>>
       \/ \* lines 104-107
           /\ pc[t] = "L104"
           /\ pc' = [pc EXCEPT ![t] = IF ExceedsScaledLimit(frame[t].classification, frame[t].position_size_pct)
                                        THEN "L108" ELSE "L111"]
           /\ UNCHANGED <<account_equity, daily_loss_total, trade_history, last_trade_time, execution_frozen, throttle_mode, locked_due_to_freq,
                          trade_timestamps, utc, mutex, calls, frame, late_entry, rep_call>>
       \/ \* line 108
           /\ pc[t] = "L108"
           /\ execution_frozen' = TRUE
           /\ pc' = [pc EXCEPT ![t] = "L109"]
           /\ UNCHANGED <<account_equity, daily_loss_total, trade_history, last_trade_time, throttle_mode, locked_due_to_freq,
                          trade_timestamps, utc, mutex, calls, frame, late_entry, rep_call>>
       \/ \* line 109
           /\ pc[t] = "L109"
           /\ Return(t, "Trade size too large. Execution frozen.")
           /\ UNCHANGED <<account_equity, daily_loss_total, trade_history, last_trade_time, execution_frozen, throttle_mode,
                          locked_due_to_freq, trade_timestamps, utc, mutex, calls, frame, late_entry>>
       \/ \* line 111
           /\ pc[t] = "L111"
           /\ trade_history' = Append(trade_history, frame[t].pnl_pct)
           /\ late_entry' = (late_entry \/ (Primary(t) /\ execution_frozen))
           /\ pc' = [pc EXCEPT ![t] = "L112"]
           /\ UNCHANGED <<account_equity, daily_loss_total, last_trade_time, execution_frozen, throttle_mode, locked_due_to_freq,
                          trade_timestamps, utc, mutex, calls, frame, rep_call>>
       \/ \* line 112
           /\ pc[t] = "L112"
           /\ daily_loss_total' = daily_loss_total + (IF frame[t].pnl_pct < 0 THEN frame[t].pnl_pct ELSE 0)
           /\ pc' = [pc EXCEPT ![t] = "L113"]
           /\ UNCHANGED <<account_equity, trade_history, last_trade_time, execution_frozen, throttle_mode, locked_due_to_freq,
                          trade_timestamps, utc, mutex, calls, frame, late_entry, rep_call>>
       \/ \* line 113
           /\ pc[t] = "L113"
           /\ last_trade_time' = frame[t].now
           /\ pc' = [pc EXCEPT ![t] = "L115"]
           /\ UNCHANGED <<account_equity, daily_loss_total, trade_history, execution_frozen, throttle_mode, locked_due_to_freq,
                          trade_timestamps, utc, mutex, calls, frame, late_entry, rep_call>>
       \/ \* line 115
           /\ pc[t] = "L115"
           /\ pc' = [pc EXCEPT ![t] = IF TradeLossExceeded(frame[t].pnl_pct) THEN "L116" ELSE "L119"]
           /\ UNCHANGED <<account_equity, daily_loss_total, trade_history, last_trade_time, execution_frozen, throttle_mode, locked_due_to_freq,
                          trade_timestamps, utc, mutex, calls, frame, late_entry, rep_call>>
       \/ \* line 116
           /\ pc[t] = "L116"
           /\ execution_frozen' = TRUE
           /\ pc' = [pc EXCEPT ![t] = "L117"]
           /\ UNCHANGED <<account_equity, daily_loss_total, trade_history, last_trade_time, throttle_mode, locked_due_to_freq,
                          trade_timestamps, utc, mutex, calls, frame, late_entry, rep_call>>
       \/ \* line 117
           /\ pc[t] = "L117"
           /\ Return(t, "Trade loss exceeded limit. Execution frozen.")
           /\ UNCHANGED <<account_equity, daily_loss_total, trade_history, last_trade_time, execution_frozen, throttle_mode,
                          locked_due_to_freq, trade_timestamps, utc, mutex, calls, frame, late_entry>>
       \/ \* line 119
           /\ pc[t] = "L119"
           /\ pc' = [pc EXCEPT ![t] = IF DailyLossExceeded(daily_loss_total) THEN "L120" ELSE "L123"]
           /\ UNCHANGED <<account_equity, daily_loss_total, trade_history, last_trade_time, execution_frozen, throttle_mode, locked_due_to_freq,
                          trade_timestamps, utc, mutex, calls, frame, late_entry, rep_call>>
       \/ \* line 120
           /\ pc[t] = "L120"
           /\ execution_frozen' = TRUE
           /\ pc' = [pc EXCEPT ![t] = "L121"]
           /\ UNCHANGED <<account_equity, daily_loss_total, trade_history, last_trade_time, throttle_mode, locked_due_to_freq,
                          trade_timestamps, utc, mutex, calls, frame, late_entry, rep_call>>
       \/ \* line 121
           /\ pc[t] = "L121"
           /\ Return(t, "Daily loss limit exceeded. Execution frozen.")
           /\ UNCHANGED <<account_equity, daily_loss_total, trade_history, last_trade_time, execution_frozen, throttle_mode,
                          locked_due_to_freq, trade_timestamps, utc, mutex, calls, frame, late_entry>>
       \/ \* line 123
           /\ pc[t] = "L123"
           /\ pc' = [pc EXCEPT ![t] = IF ThrottleTriggered(daily_loss_total) THEN "L124" ELSE "L126"]
           /\ UNCHANGED <<account_equity, daily_loss_total, trade_history, last_trade_time, execution_frozen, throttle_mode, locked_due_to_freq,
                          trade_timestamps, utc, mutex, calls, frame, late_entry, rep_call>>
       \/ \* line 124
           /\ pc[t] = "L124"
           /\ throttle_mode' = TRUE
           /\ pc' = [pc EXCEPT ![t] = "L126"]
           /\ UNCHANGED <<account_equity, daily_loss_total, trade_history, last_trade_time, execution_frozen, locked_due_to_freq,
                          trade_timestamps, utc, mutex, calls, frame, late_entry, rep_call>>
       \/ \* line 126
           /\ pc[t] = "L126"
           /\ Return(t, "Trade recorded.")
           /\ UNCHANGED <<account_equity, daily_loss_total, trade_history, last_trade_time, execution_frozen, throttle_mode,
                          locked_due_to_freq, trade_timestamps, utc, mutex, calls, frame, late_entry>>


\* ------------------------------------------------------------ RateLimiter
\* time.time() is counted in 1/100 s: the window is 100, the cooldown 9041.

OneSecond == 100

RateLimiter__init__(mpps, burst) ==
    /\ timestamps = <<>>
    /\ max_packets_per_sec = mpps
    /\ burst_limit = burst

\* lines 52-53:  while timestamps and now - timestamps[0] > 1: popleft()
RECURSIVE EvictHead(_, _)
EvictHead(ts, now) ==
    IF ts # <<>> /\ now - Head(ts) > OneSecond
    THEN EvictHead(Tail(ts), now)
    ELSE ts

\* the window allow() leaves behind when called at time now
AllowWindow(now) == EvictHead(Append(timestamps, now), now)

Admits_AgainstRate(window) == Len(window) <= max_packets_per_sec

\* line 54
Admits(window) == Len(window) <= burst_limit

\* RateLimiter.allow() called gap after the previous reading of the clock
allow(gap) ==
    LET now == clock + gap
        window == AllowWindow(now)
    IN /\ now <= MaxRLElapsed
       /\ Len(window) <= MaxWindow
       /\ clock' = now
       /\ timestamps' = window
       /\ rl_ret' = Admits(window)
       /\ UNCHANGED <<max_packets_per_sec, burst_limit>>

\* --------------------------------------------------------- PacketSanitizer
\* A packet is [kind, f]: kind is "dict" for a dictionary and f its fields.

max_length == 4096

\* len(str(v)) of a field: the payload field holds a string of v characters
FieldLen(k, v) == IF k = "payload" THEN v ELSE ShortFieldLen

\* A timestamp string is [date, time, iso, at]: the text before and after its
\* first 'T', whether strptime accepts it under "%Y-%m-%dT%H:%M:%SZ", and the
\* instant it then names, in 1/100 s on the clock time.time() reads.

FiveMinutes == 30000

\* lines 60-73, which no other line of the file calls: the ValueError message, or "ok"
validate_timestamp(timestamp_str, now) ==
    IF ~timestamp_str.iso
    THEN "Invalid timestamp format. Expected ISO format (e.g., 2025-04-09T14:33:00Z)"
    ELSE IF timestamp_str.at > now THEN "Timestamp is in the future"
    ELSE IF now - timestamp_str.at > FiveMinutes THEN "Timestamp is older than 5 minutes"
    ELSE "ok"

\* lines 75-80: the ValueError message, or "ok"
sanitize(packet) ==
    IF packet.kind # "dict" THEN "Malformed packet: not a dictionary"
    ELSE IF \E k \in DOMAIN packet.f : FieldLen(k, packet.f[k]) > max_length
         THEN "Suspiciously large field in packet"
         ELSE "ok"

\* ----------------------------------------------------- SignalIsolationSystem

multi_factor_threshold == 3

\* a call of the SignalIsolationSystem and what it returned
SisCall(op, signal_packet, ret, text, summary) ==
    [op |-> op, signal_packet |-> signal_packet, ret |-> ret, text |-> text,
     summary |-> summary]

NoSummary == [executions_logged |-> 0, approved_trades |-> 0, overrides_used |-> 0]

NoPacket == [id |-> "", timestamp |-> [date |-> "", time |-> "", iso |-> FALSE, at |-> 0],
             inputs |-> <<>>]

SignalIsolationSystem__init__ ==
    /\ override_enabled = TRUE
    /\ override_log = <<>>
    /\ execution_log = <<>>
    /\ sis_call = SisCall("__init__", NoPacket, FALSE, "", NoSummary)
    /\ sis_trace = <<>>

\* hashlib.sha256(...).hexdigest(): one-way, never the raw id
sha256(x) == <<"sha256", x>>

AgreeCount(inputs) == Cardinality({k \in DOMAIN inputs : inputs[k]})

multi_factor_confirm_Majority(inputs) == AgreeCount(inputs) > multi_factor_threshold

multi_factor_confirm(inputs) == AgreeCount(inputs) >= multi_factor_threshold

\* lines 88-97: the entry log_execution appends
LogEntry(f, approved, overridden) ==
    [signal_id_hash |-> sha256(f.id),
     timestamp |-> f.timestamp,
     approved |-> approved,
     overridden |-> overridden,
     meta |-> [input_count |-> Cardinality(DOMAIN f.inputs),
               agree_count |-> AgreeCount(f.inputs)]]

\* the call as the trace keeps it: the operation and the flags, nothing else
Traced(op, inputs) == [op |-> op, inputs |-> inputs]

\* lines 45-57
allow_trade(signal_packet) ==
    LET approved == multi_factor_confirm(signal_packet.inputs)
    IN /\ Len(sis_trace) < MaxSisCalls
       /\ execution_log' = Append(execution_log, LogEntry(signal_packet, approved, FALSE))
       /\ sis_call' = SisCall("allow_trade", signal_packet, approved, "", NoSummary)
       /\ sis_trace' = Append(sis_trace, Traced("allow_trade", signal_packet.inputs))
       /\ UNCHANGED <<override_enabled, override_log>>

OverrideBlocked_Never == FALSE

\* line 63
OverrideBlocked == ~override_enabled

\* lines 59-74
trigger_override(signal_packet, user_id, justification) ==
    /\ Len(sis_trace) < MaxSisCalls
    /\ sis_trace' = Append(sis_trace, Traced("trigger_override", signal_packet.inputs))
    /\ IF OverrideBlocked
       THEN /\ sis_call' = SisCall("trigger_override", signal_packet, FALSE, "", NoSummary)
            /\ UNCHANGED <<override_enabled, override_log, execution_log>>
       ELSE /\ override_log' = Append(override_log,
                                      [signal_id |-> signal_packet.id,
                                       timestamp |-> signal_packet.timestamp,
                                       user |-> user_id,
                                       justification |-> justification])
            /\ execution_log' = Append(execution_log, LogEntry(signal_packet, TRUE, TRUE))
            /\ sis_call' = SisCall("trigger_override", signal_packet, TRUE, "", NoSummary)
            /\ UNCHANGED override_enabled

\* sum(1 for x in log if x[field])
CountWhere(log, field) == Cardinality({i \in DOMAIN log : log[i][field]})

ComplianceSummary_PerSignal(log) ==
    [executions_logged |-> Len(log),
     approved_trades |-> Cardinality({i \in DOMAIN log :
                                         log[i].signal_id_hash = sha256("s1")}),
     overrides_used |-> CountWhere(log, "overridden")]

\* lines 100-108: the three pairs json.dumps writes out
ComplianceSummary(log) ==
    [executions_logged |-> Len(log),
     approved_trades |-> CountWhere(log, "approved"),
     overrides_used |-> CountWhere(log, "overridden")]

generate_compliance_summary ==
    /\ Len(sis_trace) < MaxSisCalls
    /\ sis_trace' = Append(sis_trace, Traced("generate_compliance_summary", <<>>))
    /\ sis_call' = SisCall("generate_compliance_summary", NoPacket, FALSE, "",
                           ComplianceSummary(execution_log))
    /\ UNCHANGED <<override_enabled, override_log, execution_log>>

AfterLockdown_Kept(enabled) == enabled

\* line 114
AfterLockdown(enabled) == FALSE

\* a lockdown that also purges the override log
lockdown_Purges ==
    /\ Len(sis_trace) < MaxSisCalls
    /\ sis_trace' = Append(sis_trace, Traced("lockdown", <<>>))
    /\ override_enabled' = FALSE
    /\ override_log' = <<>>
    /\ sis_call' = SisCall("lockdown", NoPacket, FALSE,
                           "Override system disabled. All discretionary approvals blocked.",
                           NoSummary)
    /\ UNCHANGED execution_log

\* lines 110-115
lockdown ==
    /\ Len(sis_trace) < MaxSisCalls
    /\ sis_trace' = Append(sis_trace, Traced("lockdown", <<>>))
    /\ override_enabled' = AfterLockdown(override_enabled)
    /\ sis_call' = SisCall("lockdown", NoPacket, FALSE,
                           "Override system disabled. All discretionary approvals blocked.",
                           NoSummary)
    /\ UNCHANGED <<override_log, execution_log>>

\* ---------------------------------------------------------- TradeCoordinator

anomaly_cooldown == 9041

\* time.time() at construction: long after the epoch last_safe_trade_time starts at
StartTime == 2 * anomaly_cooldown

\* a get_split_factor call and what it returned
SplitCall(op, symbol, date_str, ret) ==
    [op |-> op, symbol |-> symbol, date_str |-> date_str, ret |-> ret]

NoSplitCall == SplitCall("", "", 0, 0)

TradeCoordinator__init__ ==
    /\ decision_log = <<>>
    /\ symbol_registry = <<>>
    /\ split_log = <<>>
    /\ split_call = NoSplitCall
    /\ last_safe_trade_time = 0

\* dict.get(key, default)
Get(f, key, default) == IF key \in DOMAIN f THEN f[key] ELSE default

\* lines 100-101; dates are ISO strings of one format, whose order is that of
\* the days they name, and are counted as days
register_split(symbol, date_str, factor) ==
    /\ Len(split_log) < MaxSplits
    /\ split_log' = Append(split_log, [symbol |-> symbol, date |-> date_str,
                                       factor |-> factor])
    /\ split_call' = SplitCall("register_split", symbol, date_str, 0)

\* line 108
SplitApplies(entry, symbol, date_str) ==
    entry.symbol = symbol /\ entry.date <= date_str

\* lines 106-110: the first entry of the log that applies
RECURSIVE SplitFactor(_, _, _)
SplitFactor(log, symbol, date_str) ==
    IF log = <<>> THEN 1
    ELSE IF SplitApplies(Head(log), symbol, date_str) THEN Head(log).factor
    ELSE SplitFactor(Tail(log), symbol, date_str)

get_split_factor(symbol, date_str) ==
    /\ split_call' = SplitCall("get_split_factor", symbol, date_str,
                               SplitFactor(split_log, symbol, date_str))
    /\ UNCHANGED split_log

get_current_symbol(input_symbol) == Get(symbol_registry, input_symbol, input_symbol)

\* the external tax filter, a pure function of its arguments
evaluate_trade_tax_notes(symbol, trade_date_str, holding_days, realized) ==
    <<"tax_notes", symbol, trade_date_str, holding_days, realized>>

\* lines 176-183
MarginRisk(margin_enabled, involves_short_option) ==
    IF margin_enabled /\ ~involves_short_option THEN "Low (cash equity margin)"
    ELSE IF margin_enabled /\ involves_short_option
         THEN "Moderate to High (requires margin coverage on short leg)"
    ELSE IF ~margin_enabled /\ involves_short_option
         THEN "Ineligible: naked short option in cash-only account"
    ELSE "Low"

Unclassified == <<"u", "n", "c", "l", "a", "s", "s", "i", "f", "i", "e", "d">>

\* lines 133-147
NewDecision(f) ==
    [signal_id |-> f.id,
     timestamp |-> f.timestamp,
     inputs |-> f.inputs,
     confidence_tag |-> Get(f, "confidence_tag", Unclassified),
     risk_pct |-> Get(f, "risk_pct", 100),
     suitable |-> FALSE,
     permitted |-> FALSE,
     tax_notes |-> <<>>,
     margin_risk |-> "",
     split_adjusted |-> Get(f, "split_adjusted", FALSE),
     spinoff_event |-> Get(f, "spinoff_event", FALSE),
     final_decision |-> "REJECTED",
     reason |-> ""]

NoDecision == [signal_id |-> ""]

FinalDecision_EitherGate(allowed_by_sis, rep_ok) ==
    IF allowed_by_sis \/ rep_ok THEN "APPROVED" ELSE "REJECTED"

\* lines 145 and 185-186
FinalDecision(allowed_by_sis, rep_ok) ==
    IF allowed_by_sis /\ rep_ok THEN "APPROVED" ELSE "REJECTED"

\* a coordinator that books every signal it handles as a primary entry
ProtocolAfterSignal_Books ==
    /\ trade_timestamps' = Append(trade_timestamps, utc)
    /\ UNCHANGED <<account_equity, daily_loss_total, trade_history, last_trade_time,
                   execution_frozen, throttle_mode, locked_due_to_freq, utc, rep_call>>

\* lines 118-189 reach self.rep at lines 158-161 only, through
\* validate_trade_request, which assigns no field
ProtocolAfterSignal == UNCHANGED repVars

\* what process_signal returned, and the gates it consulted, in order
Outcome(kind, error, detail, decision, gates) ==
    [op |-> "process_signal", kind |-> kind, error |-> error, detail |-> detail,
     decision |-> decision, gates |-> gates]

CooldownActive_Never(now) == FALSE

\* line 122
CooldownActive(now) == now - last_safe_trade_time < anomaly_cooldown

\* lines 118-189; the packet arrives gap after the previous reading of the clock
process_signal_bounded(limit, gap, signal_packet) ==
    LET now == clock + gap
        window == AllowWindow(now)
        f == signal_packet.f
    IN
    /\ now - StartTime <= MaxElapsed
    /\ clock' = now
    /\ ProtocolAfterSignal
    /\ UNCHANGED <<max_packets_per_sec, burst_limit, override_enabled, override_log,
                   sis_call, sis_trace, symbol_registry, split_log, split_call,
                   raceVars, vixVars, allocVars>>
    /\ IF CooldownActive(now) THEN
           /\ tc_call' = Outcome("error", "Anomaly throttle active", "", NoDecision,
                                 <<"cooldown">>)
           /\ UNCHANGED <<timestamps, rl_ret, execution_log, decision_log,
                          last_safe_trade_time>>
       ELSE
           /\ Len(window) <= MaxWindow
           /\ timestamps' = window
           /\ rl_ret' = Admits(window)
           /\ IF ~Admits(window) THEN
                  /\ tc_call' = Outcome("error", "Rate limit exceeded. Try again later.",
                                        "", NoDecision, <<"cooldown", "ratelimiter">>)
                  /\ UNCHANGED <<execution_log, decision_log, last_safe_trade_time>>
              ELSE IF sanitize(signal_packet) # "ok" THEN
                  /\ tc_call' = Outcome("error", "Packet rejected", sanitize(signal_packet),
                                        NoDecision,
                                        <<"cooldown", "ratelimiter", "sanitizer">>)
                  /\ UNCHANGED <<execution_log, decision_log, last_safe_trade_time>>
              ELSE IF ~({"id", "timestamp", "inputs"} \subseteq DOMAIN f) THEN
                  \* signal_packet['id'] and the like raise KeyError at lines 134-136
                  /\ tc_call' = Outcome("exception", "KeyError", "", NoDecision,
                                        <<"cooldown", "ratelimiter", "sanitizer">>)
                  /\ UNCHANGED <<execution_log, decision_log, last_safe_trade_time>>
              ELSE
                  LET decision == NewDecision(f)
                      allowed_by_sis == multi_factor_confirm(f.inputs)
                  IN
                  /\ Len(decision_log) < limit
                  /\ execution_log' = Append(execution_log,
                                             LogEntry(f, allowed_by_sis, FALSE))
                  /\ IF ~allowed_by_sis THEN
                         LET d == [decision EXCEPT !.suitable = allowed_by_sis,
                                       !.reason = "SIS filter rejected signal"]
                         IN /\ last_safe_trade_time' = now
                            /\ decision_log' = Append(decision_log, d)
                            /\ tc_call' = Outcome("decision", "", "", d,
                                     <<"cooldown", "ratelimiter", "sanitizer", "sis">>)
                     ELSE
                         LET r == validate_trade_request(decision.confidence_tag,
                                                         decision.risk_pct)
                             symbol == Get(f, "symbol", "UNKNOWN")
                             notes == evaluate_trade_tax_notes(
                                          get_current_symbol(symbol), f.timestamp.date,
                                          Get(f, "holding_days", 0),
                                          Get(f, "realized", FALSE))
                             d == [decision EXCEPT
                                     !.suitable = allowed_by_sis,
                                     !.permitted = r[1],
                                     !.reason = r[2],
                                     !.tax_notes = notes,
                                     !.margin_risk = MarginRisk(
                                          Get(f, "margin_enabled", FALSE),
                                          Get(f, "involves_short_option", FALSE)),
                                     !.final_decision = FinalDecision(allowed_by_sis, r[1])]
                         IN /\ decision_log' = Append(decision_log, d)
                            /\ tc_call' = Outcome("decision", "", "", d,
                                     <<"cooldown", "ratelimiter", "sanitizer", "sis",
                                       "rep", "tax">>)
                            /\ UNCHANGED last_safe_trade_time

process_signal(gap, signal_packet) ==
    process_signal_bounded(MaxDecisions, gap, signal_packet)


\* --------------------------------------------------------- vix_whipsaw_filter
\* Datetimes are counted in hours: calendar day d is 24 * d.  The series holds
\* whole-number closes, for which the float quotients of the source compare
\* with 0.08, 0.07, 0.045 and 0.04 as the integer cross-products below do.
\* state is the dict the caller passes in and gets back; st is its value.

HoursPerDay == 24

Has(st, k) == k \in DOMAIN st

\* st[k] = v
Put(st, k, v) == [x \in DOMAIN st \cup {k} |-> IF x = k THEN v ELSE st[x]]

\* st.pop(k, None)
Pop(st, k) == [x \in DOMAIN st \ {k} |-> st[x]]

SetMin(S) == CHOOSE x \in S : \A y \in S : x <= y

\* vix_data.index[idx - 1]: the latest date of the series before d
PrevDate(data, d) ==
    CHOOSE p \in DOMAIN data : p < d /\ \A q \in DOMAIN data : q < d => q <= p

\* lines 57-74, entered when red_light_until is set and not yet passed
RedLightBranch(data, d, st) ==
    LET current_vix == data[d]
        recent == {data[x] : x \in {y \in DOMAIN data : d - 21 * HoursPerDay <= y /\ y <= d}}
        three_week_low == IF recent # {} THEN SetMin(recent) ELSE current_vix
        volatility_floor == IF three_week_low < 38 THEN three_week_low ELSE 38
    IN IF current_vix < volatility_floor
       THEN <<"normal", Pop(Pop(st, "red_light_until"), "volatility_floor")>>
       ELSE <<"red_light_active", Put(st, "volatility_floor", volatility_floor)>>

\* line 91: prev_vix > 30 and drop_pct > 0.08
YellowTrigger(prev_vix, today_vix) ==
    prev_vix > 30 /\ (prev_vix - today_vix) * 100 > 8 * prev_vix

\* line 97: drop_pct > 0.07
RedWatchTrigger(prev_vix, today_vix) ==
    (prev_vix - today_vix) * 100 > 7 * prev_vix

\* line 105: rebound_pct >= 0.045
YellowRebound(prev_vix, today_vix) ==
    (today_vix - prev_vix) * 1000 >= 45 * prev_vix

\* line 118: rebound_pct >= 0.04
RedRebound(prev_vix, today_vix) ==
    (today_vix - prev_vix) * 100 >= 4 * prev_vix

YellowCooldownHours_Escalated == 6 * HoursPerDay

\* line 107
YellowCooldownHours == 72

RedCooldownHours_Flat(red_count) == 72

\* line 121: 72 if state['red_count'] == 1 else 144
RedCooldownHours(red_count) == IF red_count = 1 THEN 72 ELSE 144

\* line 57: red_light_until and current_date <= red_light_until
RedLightActive(st, d) == Has(st, "red_light_until") /\ d <= st["red_light_until"]

\* a cooldown that ends the day before cooldown_until
YellowCooldownActive_Before(st, d) == Has(st, "cooldown_until") /\ d < st["cooldown_until"]

\* line 77: cooldown_until and current_date <= cooldown_until
YellowCooldownActive(st, d) == Has(st, "cooldown_until") /\ d <= st["cooldown_until"]

MissingDate_Forgets(st) == <<"normal", <<>>>>

\* lines 53-55: return 'normal', state
MissingDate(st) == <<"normal", st>>

\* lines 26-133: <<decision, updated state>>
vix_whipsaw_filter(d, data, st) ==
    IF d \notin DOMAIN data THEN MissingDate(st)
    ELSE IF RedLightActive(st, d) THEN RedLightBranch(data, d, st)
    ELSE IF YellowCooldownActive(st, d) THEN <<"cooldown_active", st>>
    ELSE IF ~\E p \in DOMAIN data : p < d THEN <<"normal", st>>
    ELSE
      LET today_vix == data[d]
          prev_vix == data[PrevDate(data, d)]
      IN
      IF YellowTrigger(prev_vix, today_vix) THEN
          <<"cooling_triggered",
            Put(Put(st, "observation_day", d + HoursPerDay), "last_trigger_day", d)>>
      ELSE IF RedWatchTrigger(prev_vix, today_vix) THEN
          <<"red_watch_triggered",
            Put(Put(st, "observe_red_on", d + HoursPerDay), "red_watch", TRUE)>>
      ELSE IF Has(st, "observation_day") /\ st["observation_day"] = d THEN
          IF YellowRebound(prev_vix, today_vix)
          THEN <<"revert_to_strict",
                 Pop(Put(st, "cooldown_until", d + YellowCooldownHours),
                     "observation_day")>>
          ELSE <<"normal", Pop(st, "observation_day")>>
      ELSE IF /\ Has(st, "observe_red_on") /\ st["observe_red_on"] = d
              /\ Has(st, "red_watch") /\ st["red_watch"] THEN
          IF RedRebound(prev_vix, today_vix)
          THEN LET red_count == (IF Has(st, "red_count") THEN st["red_count"] ELSE 0) + 1
                   cooldown_hours == RedCooldownHours(red_count)
               IN <<"red_light_active",
                    Pop(Put(Put(Put(st, "red_count", red_count),
                                "red_light_until", d + cooldown_hours),
                            "red_watch", FALSE),
                        "observe_red_on")>>
          ELSE <<"normal", Pop(Put(st, "red_watch", FALSE), "observe_red_on")>>
      ELSE <<"normal", st>>

\* the caller evaluates a date, not before the last one it evaluated
Evaluate(d) ==
    LET r == vix_whipsaw_filter(d, vix_data, state) IN
    /\ d >= current_date
    /\ current_date' = d
    /\ vix_ret' = r[1]
    /\ state' = r[2]
    /\ UNCHANGED vix_data


\* ------------------------------------------- enforce_allocation_rules_fullSet
\* Fractions of the account are counted in thousandths (0.06 is 60, 1.0 is
\* 1000).  Scaling leaves that grid, so a weight mapping is kept as exact
\* fractions over one denominator: weight b is w[b] / den thousandths, and the
\* arithmetic is that of the reals.  Bins are numbered in the order the dict
\* holds them.

One == 1000

RECURSIVE GCD(_, _)
GCD(a, b) == IF b = 0 THEN a ELSE GCD(b, a % b)

RECURSIVE Sum(_)
Sum(s) == IF s = <<>> THEN 0 ELSE Head(s) + Sum(Tail(s))

RECURSIVE GCDAll(_)
GCDAll(s) == IF s = <<>> THEN 0 ELSE GCD(Head(s), GCDAll(Tail(s)))

\* the same weights in lowest terms
Reduced(w, den) ==
    LET g == GCD(den, GCDAll(w))
    IN [w |-> [b \in DOMAIN w |-> w[b] \div g], den |-> den \div g]

Weights(w) == [w |-> w, den |-> 1]

\* sum(bin_weights.values()) > limit
TotalExceeds(bw, limit) == Sum(bw.w) > limit * bw.den

\* bin_weights[bin_name] *= limit / current_total, for every bin
ScaledTo(bw, limit) == Reduced([b \in DOMAIN bw.w |-> bw.w[b] * limit], Sum(bw.w))

max_total_allowed_NoReserve(c) == One

\* line 77
max_total_allowed(c) == One - c.liquidity_reserve

\* lines 74-85
enforce_liquidity_reserve_only(bw, c) ==
    IF TotalExceeds(bw, max_total_allowed(c))
    THEN ScaledTo(bw, max_total_allowed(c))
    ELSE bw

\* line 92
max_auto_alloc(c) == One - c.manual_trading_allocation

\* lines 89-100
enforce_manual_reserve_only(bw, c) ==
    IF TotalExceeds(bw, max_auto_alloc(c))
    THEN ScaledTo(bw, max_auto_alloc(c))
    ELSE bw

\* rule 3 reporting the clipped bins with the weight they were cut to
enforce_per_bin_maximum_ReportsCap(bw, c) ==
    LET max_bin == c.max_bin_weight
        over(b) == bw.w[b] > max_bin * bw.den
        flagged == SelectSeq([b \in DOMAIN bw.w |-> b], over)
    IN <<[w |-> [b \in DOMAIN bw.w |-> IF over(b) THEN max_bin * bw.den ELSE bw.w[b]],
          den |-> bw.den],
         [k \in DOMAIN flagged |-> <<flagged[k], max_bin, 1>>]>>

\* lines 104-114: <<bin_weights, flagged_bins>>
enforce_per_bin_maximum(bw, c) ==
    LET max_bin == c.max_bin_weight
        over(b) == bw.w[b] > max_bin * bw.den
        flagged == SelectSeq([b \in DOMAIN bw.w |-> b], over)
    IN <<[w |-> [b \in DOMAIN bw.w |-> IF over(b) THEN max_bin * bw.den ELSE bw.w[b]],
          den |-> bw.den],
         [k \in DOMAIN flagged |-> <<flagged[k], bw.w[flagged[k]], bw.den>>]>>

max_bins_allowed == 25

overlap_threshold == 20

\* bin_metadata.get(bin_name, {})
MetaOf(meta, b) == Get(meta, b, <<>>)

\* lines 118-136: <<ok, reason>>
enforce_bin_count_and_overlap(bw, meta) ==
    LET active_bins == DOMAIN bw.w
        unique_underlyings ==
            {MetaOf(meta, b)["underlying"] :
                b \in {x \in active_bins : "underlying" \in DOMAIN MetaOf(meta, x)}}
    IN IF Cardinality(active_bins) > max_bins_allowed
       THEN <<FALSE, "too many bins active">>
       ELSE IF /\ Cardinality(unique_underlyings) < Cardinality(active_bins)
               /\ Cardinality(active_bins) > overlap_threshold
            THEN <<FALSE, "bin overlap exceeds threshold">>
            ELSE <<TRUE, "">>

max_futures_alloc == 50

\* what dict.get gives for a key that is not there, where the values are names
Absent == "None"

\* lines 146-149: the numerators of the bins whose type is futures
FuturesWeights(w, meta) ==
    [b \in DOMAIN w |-> IF Get(MetaOf(meta, b), "type", Absent) = "futures" THEN w[b] ELSE 0]

\* lines 140-154: <<ok, reason>>
enforce_futures_allocation(bw, meta) ==
    IF Sum(FuturesWeights(bw.w, meta)) > max_futures_alloc * bw.den
    THEN <<FALSE, "futures allocation exceeds maximum permitted exposure">>
    ELSE <<TRUE, "">>

\* what a call on the allocation dicts was given, what its rejecting rules were
\* handed, and how it ended
AllocCall(op, submitted, checked, raised, error, reason, over_caps) ==
    [op |-> op, submitted |-> submitted, checked |-> checked, raised |-> raised,
     error |-> error, reason |-> reason, over_caps |-> over_caps]

NoAllocCall == AllocCall("", Weights(<<>>), Weights(<<>>), FALSE, "", "", <<>>)

\* what enforce_fixed_bin_model_mapping was given and returned
MappingCall(meta, ok, bin_name, actual_model) ==
    [op |-> "enforce_fixed_bin_model_mapping", submitted |-> Weights(<<>>),
     checked |-> Weights(<<>>), raised |-> FALSE, error |-> "", reason |-> "",
     over_caps |-> <<>>, metadata |-> meta, ok |-> ok, bin_name |-> bin_name,
     actual_model |-> actual_model]

\* lines 160-162: <<bin_weights, over_caps>>
RulesOneToThree(bw, c) ==
    enforce_per_bin_maximum(
        enforce_manual_reserve_only(enforce_liquidity_reserve_only(bw, c), c), c)

\* lines 159-172; the rules rewrite the caller's dict in place, so it keeps the
\* scaled and clipped weights when the call raises
enforce_allocation_rules ==
    LET corrected == RulesOneToThree(bin_weights, constraints)
        bw == corrected[1]
        rule4 == enforce_bin_count_and_overlap(bw, bin_metadata)
        rule5 == enforce_futures_allocation(bw, bin_metadata)
        call(raised, error, reason) ==
            AllocCall("enforce_allocation_rules", bin_weights, bw, raised, error,
                      reason, corrected[2])
    IN /\ bin_weights' = bw
       /\ alloc_call' = IF ~rule4[1] THEN call(TRUE, "Bin overlap violation", rule4[2])
                        ELSE IF ~rule5[1]
                             THEN call(TRUE, "Futures exposure violation", rule5[2])
                             ELSE call(FALSE, "", "")
       /\ UNCHANGED <<bin_metadata, constraints, fixed_assignments, ruleVars>>

\* rule 1 called on its own, lines 74-85
LiquidityReserveOnly ==
    LET bw == enforce_liquidity_reserve_only(bin_weights, constraints)
    IN /\ bin_weights' = bw
       /\ alloc_call' = AllocCall("enforce_liquidity_reserve_only", bin_weights, bw,
                                  FALSE, "", "", <<>>)
       /\ UNCHANGED <<bin_metadata, constraints, fixed_assignments, ruleVars>>

ModelMatches_WhenRecorded(actual_model, expected_model) ==
    actual_model = Absent \/ actual_model = expected_model

\* line 235, negated
ModelMatches(actual_model, expected_model) == actual_model = expected_model

\* lines 230-237: <<ok, the bin named in the message, its actual model>>
enforce_fixed_bin_model_mapping(meta, fixed) ==
    LET unexpected == {b \in DOMAIN meta :
                          ~ModelMatches(Get(meta[b], "model", Absent),
                                        Get(fixed, b, Absent))}
    IN IF unexpected = {} THEN <<TRUE, None, Absent>>
       ELSE LET bin_name == SetMin(unexpected)
            IN <<FALSE, bin_name, Get(meta[bin_name], "model", Absent)>>

\* the caller presents the metadata as it now stands
CheckFixedMapping(meta) ==
    LET r == enforce_fixed_bin_model_mapping(meta, fixed_assignments)
    IN /\ bin_metadata' = meta
       /\ alloc_call' = MappingCall(meta, r[1], r[2], r[3])
       /\ UNCHANGED <<bin_weights, constraints, fixed_assignments, ruleVars>>

\* ---- rules 4 to 11 called on their own
\* A call ends in an exception (raised names it) or in the pair (ok, reason);
\* bin is the bin a reason names.  Days are counted from a day 0, and
\* margin multipliers in tenths (1.5 is 15).

RuleCall(op, raised, ok, reason, bin, target, date) ==
    [op |-> op, raised |-> raised, ok |-> ok, reason |-> reason, bin |-> bin,
     target |-> target, date |-> date]

NoRuleCall == RuleCall("", "", TRUE, "", None, None, None)

\* <<raised, ok, reason, bin>>
Raises(e) == <<e, FALSE, "", None>>

Returns(ok, reason, bin) == <<"", ok, reason, bin>>

\* the first of the keys, in the order the code reads them, that c lacks
RECURSIVE FirstMissing(_, _)
FirstMissing(c, keys) ==
    IF keys = <<>> THEN Absent
    ELSE IF Head(keys) \notin DOMAIN c THEN Head(keys)
    ELSE FirstMissing(c, Tail(keys))

\* line 185: metadata.get('margin_mult', 1.0)
margin_mult(meta, b) == Get(MetaOf(meta, b), "margin_mult", 10)

\* lines 178-191
enforce_margin_multiplier(bw, meta, c) ==
    IF FirstMissing(c, <<"liquidity_reserve", "manual_trading_allocation">>) # Absent
    THEN Raises("KeyError")
    ELSE LET margin_threshold == One - c.liquidity_reserve - c.manual_trading_allocation
             total_margin_used == Sum([b \in DOMAIN bw.w |-> bw.w[b] * margin_mult(meta, b)])
         IN IF total_margin_used > margin_threshold * bw.den * 10
            THEN Returns(FALSE, "Estimated margin usage exceeds threshold", None)
            ELSE Returns(TRUE, "", None)

slippage_per_option_bin == 15

\* line 204: constraints.get('slippage_budget', 0.05)
SlippageBudget(c) == Get(c, "slippage_budget", 50)

\* lines 195-206
enforce_slippage_buffer(bw, meta, c) ==
    LET option_bins == {b \in DOMAIN bw.w : Get(MetaOf(meta, b), "type", Absent) = "options"}
        estimated_slip == slippage_per_option_bin * Cardinality(option_bins)
    IN IF estimated_slip > SlippageBudget(c)
       THEN Returns(FALSE, "Slippage risk exceeds buffer", None)
       ELSE Returns(TRUE, "", None)

\* lines 212-214: the bins whose last_rotation_date is current_date
RotatedToday(meta, d) ==
    {b \in DOMAIN meta : Get(meta[b], "last_rotation_date", None) = d}

\* lines 210-216; the function is not told which bin is to rotate
enforce_bin_rotation_lock(meta, d) ==
    IF RotatedToday(meta, d) = {} THEN Returns(TRUE, "", None)
    ELSE Returns(FALSE, "already rotated today", SetMin(RotatedToday(meta, d)))

\* lines 220-226: <<raised, bin_status_log>>.  timedelta is not defined in the
\* module, so line 225 raises for the first flagged bin, after line 224 has
\* written to it
enforce_nightly_rebalance(log) ==
    LET flagged == {b \in DOMAIN log : Get(log[b], "violation_today", FALSE)}
    IN IF flagged = {} THEN <<"", log>>
       ELSE LET b == SetMin(flagged)
            IN <<"NameError", [log EXCEPT ![b] = Put(log[b], "active", FALSE)]>>

\* lines 243-246
required_persistence == [red |-> 2, yellow |-> 1]

\* lines 241-254; an alert without 'since' stops the loop at line 251
enforce_warning_persistence(alerts, today_date) ==
    LET level(b) == Get(alerts[b], "level", Absent)
        unset(b) == ~Has(alerts[b], "since")
        held(b) == /\ level(b) \in DOMAIN required_persistence
                   /\ today_date - alerts[b]["since"] < required_persistence[level(b)]
        stops == {b \in DOMAIN alerts : unset(b) \/ held(b)}
    IN IF stops = {} THEN Returns(TRUE, "", None)
       ELSE IF unset(SetMin(stops)) THEN Raises("TypeError")
       ELSE Returns(FALSE, "must remain", SetMin(stops))

\* a rule that reads its arguments and answers
Answer(op, r, target, date) ==
    /\ rule_call' = RuleCall(op, r[1], r[2], r[3], r[4], target, date)
    /\ UNCHANGED <<bin_weights, bin_metadata, constraints, fixed_assignments, alloc_call,
                   bin_status_log, bin_alert_state>>

\* a corrective rule called on its own: constraints[key] raises KeyError when
\* the key is missing, before any weight is touched; otherwise the caller's dict
\* is rewritten in place
Corrects(op, key, bw) ==
    /\ IF key \in DOMAIN constraints
       THEN /\ bin_weights' = bw
            /\ rule_call' = RuleCall(op, "", TRUE, "", None, None, None)
       ELSE /\ bin_weights' = bin_weights
            /\ rule_call' = RuleCall(op, "KeyError", FALSE, "", None, None, None)
    /\ UNCHANGED <<bin_metadata, constraints, fixed_assignments, alloc_call, bin_status_log,
                   bin_alert_state>>

\* lines 74-85
LiquidityReserveRule ==
    Corrects("enforce_liquidity_reserve_only", "liquidity_reserve",
             enforce_liquidity_reserve_only(bin_weights, constraints))

\* lines 89-100
ManualReserveRule ==
    Corrects("enforce_manual_reserve_only", "manual_trading_allocation",
             enforce_manual_reserve_only(bin_weights, constraints))

\* lines 104-114
PerBinMaximumRule ==
    Corrects("enforce_per_bin_maximum", "max_bin_weight",
             enforce_per_bin_maximum(bin_weights, constraints)[1])

BinCountAndOverlap ==
    LET r == enforce_bin_count_and_overlap(bin_weights, bin_metadata)
    IN Answer("enforce_bin_count_and_overlap", Returns(r[1], r[2], None), None, None)

FuturesAllocation ==
    LET r == enforce_futures_allocation(bin_weights, bin_metadata)
    IN Answer("enforce_futures_allocation", Returns(r[1], r[2], None), None, None)

MarginMultiplier ==
    Answer("enforce_margin_multiplier",
           enforce_margin_multiplier(bin_weights, bin_metadata, constraints), None, None)

SlippageBuffer ==
    Answer("enforce_slippage_buffer",
           enforce_slippage_buffer(bin_weights, bin_metadata, constraints), None, None)

\* the caller asks before rotating bin target on day d
RotationLock(target, d) ==
    Answer("enforce_bin_rotation_lock", enforce_bin_rotation_lock(bin_metadata, d), target, d)

NightlyRebalance ==
    LET r == enforce_nightly_rebalance(bin_status_log)
    IN /\ bin_status_log' = r[2]
       /\ rule_call' = RuleCall("enforce_nightly_rebalance", r[1], TRUE, "", None, None, None)
       /\ UNCHANGED <<bin_weights, bin_metadata, constraints, fixed_assignments, alloc_call,
                      bin_alert_state>>

FixedBinModelMapping ==
    LET r == enforce_fixed_bin_model_mapping(bin_metadata, fixed_assignments)
    IN Answer("enforce_fixed_bin_model_mapping",
              Returns(r[1], IF r[1] THEN "" ELSE "assigned to unexpected model", r[2]),
              None, None)

WarningPersistence(today_date) ==
    Answer("enforce_warning_persistence",
           enforce_warning_persistence(bin_alert_state, today_date), None, today_date)

\* ------------------------------------------------------- inputs explored

Equities == {1500, 10000, 30000}
PnlValues == {-200, -150, 50}
SizeValues == {1500, 2000, 2500}
TradeKinds == {<<"entry", "primary">>, <<"entry", "adjustment">>, <<"exit", "primary">>}
Tags == { <<>>,
          <<"A", "_", "2">>,
          <<"H", "i", "R", "S", "I", ".", "L", "o", "w">>,
          <<"M", "E", "D", "A", "_">> }
\* record_trade is explored with a size within every tier's limit under a tag
\* that scales to 1.0, and a size above every tier's limit under one that scales
\* to 0.25
RecordRequests == {<<1500, <<"A", "_", "2">>>>, <<2500, <<>>>>}
TickSteps == {1}

\* gaps between rate-limiter calls: none, 0.6 s, exactly 1 s
RLGaps == {0, 60, OneSecond}
RLBurstLimits == {2, 10}
RLRates == {1, 5, 20}

\* gaps between coordinator calls: none, just inside and just outside the cooldown
TCGaps == {0, anomaly_cooldown - 1, anomaly_cooldown}

\* a second before the coordinator was built
Stamp == [date |-> "2025-04-09", time |-> "14:33:00Z", iso |-> TRUE, at |-> StartTime - 100]

\* more than five minutes before the coordinator was built
StampStale == [date |-> "2025-04-09", time |-> "14:27:58Z", iso |-> TRUE,
               at |-> StartTime - FiveMinutes - 100]

\* later than any instant the runs reach
StampFuture == [date |-> "2025-04-09", time |-> "14:40:00Z", iso |-> TRUE,
                at |-> StartTime + MaxElapsed + FiveMinutes]

\* "yesterday at noon": no 'T' to split at, and strptime refuses it
StampText == [date |-> "yesterday at noon", time |-> "", iso |-> FALSE, at |-> 0]

Flags(n) == [k \in {"technical", "order_flow", "volatility", "behavioral"} |->
                CASE k = "technical" -> n >= 1
                  [] k = "order_flow" -> n >= 2
                  [] k = "volatility" -> n >= 3
                  [] k = "behavioral" -> n >= 4]

Dict(f) == [kind |-> "dict", f |-> f]

\* three domains agree, full-confidence tag, 15% of equity
PacketGood == Dict([id |-> "s1", timestamp |-> Stamp, inputs |-> Flags(3),
                    symbol |-> "META", confidence_tag |-> <<"A", "_", "2">>,
                    risk_pct |-> 1500, margin_enabled |-> TRUE])
\* three domains agree, 25% of equity: above the limit of the low and retail tiers
PacketBig == Dict([id |-> "s2", timestamp |-> Stamp, inputs |-> Flags(3),
                   confidence_tag |-> <<"A", "_", "2">>, risk_pct |-> 2500,
                   margin_enabled |-> TRUE, involves_short_option |-> TRUE])
\* only two domains agree
PacketWeak == Dict([id |-> "s3", timestamp |-> Stamp, inputs |-> Flags(2),
                    confidence_tag |-> <<"A", "_", "2">>, risk_pct |-> 1500])
\* every optional key left out
PacketBare == Dict([id |-> "s4", timestamp |-> Stamp, inputs |-> Flags(4)])
\* not a dictionary
PacketText == [kind |-> "str", f |-> <<>>]
\* a field of 5000 characters
PacketHuge == Dict([id |-> "s5", timestamp |-> Stamp, inputs |-> Flags(4),
                    payload |-> 5000])
\* a dictionary without an id
PacketNoId == Dict([timestamp |-> Stamp, inputs |-> Flags(4)])
\* PacketGood stamped more than five minutes ago, in the future, and not in ISO form
PacketStale == Dict([PacketGood.f EXCEPT !.id = "s6", !.timestamp = StampStale])
PacketFuture == Dict([PacketGood.f EXCEPT !.id = "s7", !.timestamp = StampFuture])
PacketUndated == Dict([PacketGood.f EXCEPT !.id = "s8", !.timestamp = StampText])

Packets == {PacketGood, PacketBig, PacketWeak, PacketBare, PacketText, PacketHuge,
            PacketNoId}

StampedPackets == {PacketGood, PacketStale, PacketFuture, PacketUndated, PacketHuge}

\* whole-number closes: 35 -> 31 and 35 -> 29 are drops of more than 8%,
\* 31 -> 33 a rebound above 4.5%, 29 -> 26 a drop of more than 7% from below 30
VixValues == {26, 29, 31, 33, 35}

Dates == {HoursPerDay * i : i \in 0..(MaxDays - 1)}

\* a longer calendar with a gap: a first red light or cooldown set on one of
\* the early days is still on at the first late day and has run out by the
\* other two
EscalationDates == Dates \cup {HoursPerDay * (MaxDays + i) : i \in 2..4}

EscalationValues == {24, 26, 29, 35}


\* weight mappings in thousandths; bin 1 is the futures bin of MetaPlain
Example95 == <<60, 440, 450>>
Oversubscribed == <<60, 540, 600>>
Within == <<40, 300, 300>>
WithinFutures == <<60, 300, 300>>
Crowd == [b \in 1..(max_bins_allowed + 1) |-> IF b = 1 THEN 60 ELSE 30]
Repeats == [b \in 1..(overlap_threshold + 1) |-> 40]

\* signals for the SignalIsolationSystem on its own: two ids, two times, three
\* agreeing domains or two
Stamp2 == [date |-> "2025-04-10", time |-> "09:31:00Z", iso |-> TRUE, at |-> StartTime]

SisPackets ==
    {[id |-> "s1", timestamp |-> Stamp, inputs |-> Flags(3)],
     [id |-> "s2", timestamp |-> Stamp2, inputs |-> Flags(3)],
     [id |-> "s1", timestamp |-> Stamp, inputs |-> Flags(2)],
     [id |-> "s2", timestamp |-> Stamp2, inputs |-> Flags(2)]}

Overriders == {<<"ops1", "hedge unwind">>, <<"ops2", "desk request">>}

WeightInputs == {Weights(w) : w \in {Example95, Oversubscribed, Within, WithinFutures,
                                     Crowd, Repeats}}

AllBins == 1..(max_bins_allowed + 1)

ModelOf(b) == IF b % 2 = 1 THEN "trend" ELSE "mean_reversion"

\* every bin on its own underlying, bin 1 trading futures
MetaPlain ==
    [b \in AllBins |-> [type |-> IF b = 1 THEN "futures" ELSE "options",
                         underlying |-> <<"U", b>>, model |-> ModelOf(b)]]

\* every bin on one underlying, bins 1 and 2 trading futures
MetaShared ==
    [b \in AllBins |-> [type |-> IF b <= 2 THEN "futures" ELSE "options",
                         underlying |-> <<"U", 0>>, model |-> ModelOf(b)]]

\* bin 2 handed to another model
MetaRemodelled == [MetaPlain EXCEPT ![2].model = "trend"]

\* two bins only, as first assigned
MetaPair == [b \in {1, 2} |-> MetaPlain[b]]

\* two bins with nothing recorded about them
MetaBare == [b \in {1, 2} |-> <<>>]

MetaInputs == {MetaPlain, MetaShared, MetaRemodelled, MetaPair, MetaBare}

FixedInputs == {[b \in AllBins |-> ModelOf(b)], [b \in {1, 2} |-> ModelOf(b)], <<>>}

ConstraintInputs ==
    [liquidity_reserve : {100, 200}, manual_trading_allocation : {100, 150},
     max_bin_weight : {60, 600}]


\* ---- what the rules called on their own are given

RuleDates == 0..(MaxDays - 1)

\* three option bins with a margin multiplier of 1.5; bin 1 rotated on day 1,
\* the others on day 0
MetaRotated ==
    [b \in 1..3 |-> [type |-> "options", underlying |-> <<"U", b>>, model |-> ModelOf(b),
                     margin_mult |-> 15, last_rotation_date |-> IF b = 1 THEN 1 ELSE 0]]

RuleMetaInputs == MetaInputs \cup {MetaRotated}

FullConstraints ==
    [liquidity_reserve |-> 100, manual_trading_allocation |-> 100, max_bin_weight |-> 60,
     slippage_budget |-> 20]

Without(c, k) == [x \in DOMAIN c \ {k} |-> c[x]]

\* the [GLOBAL_CONSTRAINTS] section of a config.ini that sets every constraint
ConfigSection ==
    [max_bin_weight |-> 60, min_bin_weight |-> 25, total_portfolio_allocation |-> 1000,
     liquidity_reserve |-> 100, manual_trading_allocation |-> 100, slippage_budget |-> 20]

\* ConfigLoader.get_constraints
get_constraints(section) ==
    [k \in {"max_bin_weight", "min_bin_weight", "total_portfolio_allocation",
            "liquidity_reserve"} |-> section[k]]

RuleConstraintInputs ==
    {FullConstraints, get_constraints(ConfigSection)}
        \cup {Without(FullConstraints, k) : k \in DOMAIN FullConstraints}

StatusInputs ==
    { [b \in 1..3 |-> [violation_today |-> FALSE, active |-> TRUE, date |-> 1]],
      [b \in 1..3 |-> [violation_today |-> (b >= 2), active |-> TRUE, date |-> 1]] }

AlertInputs ==
    { [b \in 1..2 |-> [level |-> IF b = 1 THEN "green" ELSE "red", since |-> 0]],
      [b \in 1..2 |-> [level |-> "yellow", since |-> b - 1]],
      [b \in 1..2 |-> IF b = 1 THEN [level |-> "green", since |-> 0] ELSE [level |-> "red"]] }

\* ------------------------------------------------------------ specifications

NoCall == Call("__init__", 0, 0, "", "", <<>>, FALSE, "", NoStatus)

NoOutcome == [op |-> "__init__", kind |-> "", error |-> "", detail |-> "",
              decision |-> NoDecision, gates |-> <<>>]

\* a coordinator as constructed: TradeCoordinator(sis, rep, tax_filter)
InitCoordinator ==
    /\ RateLimiter__init__(5, 10)
    /\ rl_ret = TRUE
    /\ clock = StartTime
    /\ SignalIsolationSystem__init__
    /\ TradeCoordinator__init__
    /\ tc_call = NoOutcome

InitREP ==
    /\ \E e \in Equities : RiskExecutionProtocol__init__(e)
    /\ utc = 0
    /\ rep_call = NoCall
    /\ IdleCallers

\* ---- the RiskExecutionProtocol alone

\* no series and a fresh state dict
IdleVix ==
    /\ vix_data = <<>>
    /\ state = <<>>
    /\ current_date = 0
    /\ vix_ret = ""

\* no status log or alert state kept yet, no rule called on its own
IdleRules ==
    /\ bin_status_log = <<>>
    /\ bin_alert_state = <<>>
    /\ rule_call = NoRuleCall

\* no allocation dicts built yet
IdleAlloc ==
    /\ bin_weights = Weights(<<>>)
    /\ bin_metadata = <<>>
    /\ constraints = [liquidity_reserve |-> 100, manual_trading_allocation |-> 100,
                      max_bin_weight |-> 60]
    /\ fixed_assignments = <<>>
    /\ alloc_call = NoAllocCall
    /\ IdleRules

Init == InitREP /\ InitCoordinator /\ IdleVix /\ IdleAlloc

notRep == <<raceVars, rlVars, clock, sisVars, tcVars, vixVars, allocVars>>

NextREP ==
    \/ \E p \in PnlValues, rq \in RecordRequests, k \in TradeKinds :
          record_trade(p, rq[1], k[1], k[2], rq[2]) /\ UNCHANGED notRep
    \/ \E c \in Tags, s \in SizeValues :
          ValidateTradeRequest(c, s) /\ UNCHANGED notRep
    \/ should_throttle /\ UNCHANGED notRep
    \/ get_status /\ UNCHANGED notRep
    \/ reset_daily_risk /\ UNCHANGED notRep
    \/ \E d \in TickSteps : Tick(d) /\ UNCHANGED notRep

Spec == Init /\ [][NextREP]_vars

\* ---- primary entries recorded one after another, up to and past the hourly cap

EntryPnl == {50, -100}

NextEntries ==
    \/ \E p \in EntryPnl, rq \in RecordRequests :
          /\ record_trade_bounded(MaxEntries, p, rq[1], "entry", "primary", rq[2])
          /\ UNCHANGED notRep
    \/ TickUntil(MaxEntryClock, 1) /\ UNCHANGED notRep
    \/ reset_daily_risk /\ UNCHANGED notRep

SpecEntries == Init /\ [][NextEntries]_vars

\* ---- primary entries recorded minutes, hours and a day apart

DaySteps == {1, SecondsPerHour, SecondsPerDay}

NextDays ==
    \/ record_trade(50, 1500, "entry", "primary", <<"A", "_", "2">>) /\ UNCHANGED notRep
    \/ \E d \in DaySteps : TickUntil(MaxDayClock, d) /\ UNCHANGED notRep
    \/ reset_daily_risk /\ UNCHANGED notRep

SpecDays == Init /\ [][NextDays]_vars

\* ---- the RateLimiter alone: RateLimiter(max_packets_per_sec, burst_limit)

InitRL ==
    /\ \E r \in RLRates, b \in RLBurstLimits : RateLimiter__init__(r, b)
    /\ rl_ret = TRUE
    /\ clock = 0
    /\ SignalIsolationSystem__init__
    /\ TradeCoordinator__init__
    /\ tc_call = NoOutcome
    /\ RiskExecutionProtocol__init__(10000)
    /\ utc = 0
    /\ rep_call = NoCall
    /\ IdleCallers
    /\ IdleVix
    /\ IdleAlloc

NextRL ==
    \E g \in RLGaps : allow(g) /\ UNCHANGED <<repVars, raceVars, sisVars, tcVars, vixVars, allocVars>>

SpecRL == InitRL /\ [][NextRL]_vars

\* ---- the TradeCoordinator with its rate limiter, SIS and REP; the caller
\* ---- also records a losing exit (which freezes the protocol) and resets it

NextTC ==
    \/ \E g \in TCGaps, p \in Packets : process_signal(g, p)
    \/ /\ ~execution_frozen
       /\ record_trade(-200, 1500, "exit", "primary", <<>>)
       /\ UNCHANGED notRep
    \/ reset_daily_risk /\ UNCHANGED notRep

SpecTC == Init /\ [][NextTC]_vars

\* ---- the TradeCoordinator given packets that differ in their timestamps

NextStamped ==
    \E g \in TCGaps, p \in StampedPackets : process_signal(g, p)

SpecStamped == Init /\ [][NextStamped]_vars

\* ---- the coordinator's split log: splits registered in any order, then queried

SplitSymbols == {"AAPL", "TSLA"}

SplitDates == 1..3

SplitFactors == {2, 4}

notSplits ==
    <<repVars, raceVars, rlVars, clock, sisVars, decision_log, symbol_registry,
      last_safe_trade_time, tc_call, vixVars, allocVars>>

NextSplits ==
    \/ \E sym \in SplitSymbols, d \in SplitDates, f \in SplitFactors :
          register_split(sym, d, f) /\ UNCHANGED notSplits
    \/ \E sym \in SplitSymbols, d \in SplitDates :
          get_split_factor(sym, d) /\ UNCHANGED notSplits

SpecSplits == Init /\ [][NextSplits]_vars

\* ---- the SignalIsolationSystem called directly

notSis == <<repVars, raceVars, rlVars, clock, tcVars, vixVars, allocVars>>

NextSIS ==
    \/ \E p \in SisPackets : allow_trade(p) /\ UNCHANGED notSis
    \/ \E p \in SisPackets, o \in Overriders :
          trigger_override(p, o[1], o[2]) /\ UNCHANGED notSis
    \/ generate_compliance_summary /\ UNCHANGED notSis
    \/ lockdown /\ UNCHANGED notSis

SpecSIS == Init /\ [][NextSIS]_vars

\* ---- signals approved one after another within the hour, beside a caller
\* that records entries

ApprovalGaps == {0, anomaly_cooldown}

ApprovalPackets == {PacketGood, PacketWeak}

NextApprovals ==
    \/ \E g \in ApprovalGaps, p \in ApprovalPackets :
          process_signal_bounded(MaxApprovals, g, p)
    \/ record_trade(50, 1500, "entry", "primary", <<"A", "_", "2">>) /\ UNCHANGED notRep
    \/ reset_daily_risk /\ UNCHANGED notRep

SpecApprovals == Init /\ [][NextApprovals]_vars

\* ---- the coordinator and the SIS it shares with a desk that overrides: the
\* three logs written by process_signal, trigger_override and lockdown

\* a packet that is approved, one SIS turns down, one the sanitizer rejects
LogPackets == {PacketGood, PacketWeak, PacketHuge}

NextLogs ==
    \/ \E g \in TCGaps, p \in LogPackets : process_signal(g, p)
    \/ \E p \in {q \in SisPackets : q.id = "s1" /\ ~multi_factor_confirm(q.inputs)} :
          trigger_override(p, "ops1", "hedge unwind") /\ UNCHANGED notSis
    \/ lockdown /\ UNCHANGED notSis

SpecLogs == Init /\ [][NextLogs]_vars

\* ---- vix_whipsaw_filter over a series with or without gaps, from an empty dict

InitVIX ==
    /\ \E D \in SUBSET Dates : vix_data \in [D -> VixValues]
    /\ state = <<>>
    /\ current_date = 0
    /\ vix_ret = ""
    /\ InitCoordinator
    /\ RiskExecutionProtocol__init__(10000)
    /\ utc = 0
    /\ rep_call = NoCall
    /\ IdleCallers
    /\ IdleAlloc

NextVIX ==
    \E d \in Dates :
        Evaluate(d) /\ UNCHANGED <<repVars, raceVars, rlVars, clock, sisVars, tcVars, allocVars>>

SpecVIX == InitVIX /\ [][NextVIX]_vars

\* ---- the filter over the longer calendar, where a red light can be set twice

InitEscalation ==
    /\ \E D \in SUBSET EscalationDates : vix_data \in [D -> EscalationValues]
    /\ state = <<>>
    /\ current_date = 0
    /\ vix_ret = ""
    /\ InitCoordinator
    /\ RiskExecutionProtocol__init__(10000)
    /\ utc = 0
    /\ rep_call = NoCall
    /\ IdleCallers
    /\ IdleAlloc

NextEscalation ==
    \E d \in EscalationDates :
        Evaluate(d) /\ UNCHANGED <<repVars, raceVars, rlVars, clock, sisVars, tcVars, allocVars>>

SpecEscalation == InitEscalation /\ [][NextEscalation]_vars

\* ---- the filter replayed over the longer calendar: the function takes any
\* current_date, also one before the last it was given

Replay(d) ==
    LET r == vix_whipsaw_filter(d, vix_data, state) IN
    /\ current_date' = d
    /\ vix_ret' = r[1]
    /\ state' = r[2]
    /\ UNCHANGED vix_data

NextReplay ==
    \E d \in EscalationDates :
        Replay(d) /\ UNCHANGED <<repVars, raceVars, rlVars, clock, sisVars, tcVars, allocVars>>

\* closes that let a yellow cooldown (35, 29, 35) and a red light (29, 26, 29)
\* be set
ReplayValues == {26, 29, 35}

InitReplay ==
    /\ \E D \in SUBSET EscalationDates : vix_data \in [D -> ReplayValues]
    /\ state = <<>>
    /\ current_date = 0
    /\ vix_ret = ""
    /\ InitCoordinator
    /\ RiskExecutionProtocol__init__(10000)
    /\ utc = 0
    /\ rep_call = NoCall
    /\ IdleCallers
    /\ IdleAlloc

SpecReplay == InitReplay /\ [][NextReplay]_vars

\* ---- the allocation rules over the weights, metadata and constraints supplied

notAlloc == <<repVars, raceVars, rlVars, clock, sisVars, tcVars, vixVars>>

InitAlloc ==
    /\ bin_weights \in WeightInputs
    /\ bin_metadata \in MetaInputs
    /\ constraints \in ConstraintInputs
    /\ fixed_assignments \in FixedInputs
    /\ alloc_call = NoAllocCall
    /\ IdleRules
    /\ IdleVix
    /\ InitCoordinator
    /\ RiskExecutionProtocol__init__(10000)
    /\ utc = 0
    /\ rep_call = NoCall
    /\ IdleCallers

NextAlloc ==
    \/ LiquidityReserveOnly /\ UNCHANGED notAlloc
    \/ enforce_allocation_rules /\ UNCHANGED notAlloc
    \/ \E meta \in MetaInputs : CheckFixedMapping(meta) /\ UNCHANGED notAlloc

SpecAlloc == InitAlloc /\ [][NextAlloc]_vars

\* ---- the rules that read the constraints, each called on its own with
\* constraints that may lack a key

InitConstraints ==
    /\ bin_weights \in WeightInputs
    /\ bin_metadata \in RuleMetaInputs
    /\ constraints \in RuleConstraintInputs
    /\ fixed_assignments = <<>>
    /\ alloc_call = NoAllocCall
    /\ IdleRules
    /\ IdleVix
    /\ InitCoordinator
    /\ RiskExecutionProtocol__init__(10000)
    /\ utc = 0
    /\ rep_call = NoCall
    /\ IdleCallers

NextConstraints ==
    \/ LiquidityReserveRule /\ UNCHANGED notAlloc
    \/ ManualReserveRule /\ UNCHANGED notAlloc
    \/ PerBinMaximumRule /\ UNCHANGED notAlloc
    \/ MarginMultiplier /\ UNCHANGED notAlloc
    \/ SlippageBuffer /\ UNCHANGED notAlloc

SpecConstraints == InitConstraints /\ [][NextConstraints]_vars

\* ---- two callers of record_trade on one protocol, serialised or not

notRace == <<rlVars, clock, sisVars, tcVars, vixVars, allocVars>>

\* <<pnl_pct, position_size_pct, trade_type, operation_type, classification>>:
\* a loss past the trade limit, a smaller loss, a win, an oversized entry, and
\* two losing exits
RaceRequests ==
    { <<-200, 1500, "entry", "primary", <<"A", "_", "2">>>>,
      <<-150, 1500, "entry", "primary", <<"A", "_", "2">>>>,
      <<50, 1500, "entry", "primary", <<"A", "_", "2">>>>,
      <<50, 2500, "entry", "primary", <<>>>>,
      <<-150, 1500, "exit", "primary", <<"A", "_", "2">>>>,
      <<-200, 1500, "exit", "primary", <<"A", "_", "2">>>> }

\* three winning primary entries recorded at time 0, before the callers start
PriorWins == <<50, 50, 50>>

InitRace ==
    /\ account_equity = 30000
    /\ daily_loss_total = 0
    /\ trade_history = PriorWins
    /\ last_trade_time = 0
    /\ execution_frozen = FALSE
    /\ throttle_mode = FALSE
    /\ locked_due_to_freq = FALSE
    /\ trade_timestamps = [i \in DOMAIN PriorWins |-> 0]
    /\ utc = 0
    /\ rep_call = NoCall
    /\ pc = [t \in Threads |-> "idle"]
    /\ frame = [t \in Threads |-> NoFrame]
    /\ mutex \in BOOLEAN
    /\ late_entry = FALSE
    /\ calls = 0
    /\ InitCoordinator
    /\ IdleVix
    /\ IdleAlloc

NextRace ==
    \/ \E t \in Threads, rq \in RaceRequests :
          Enter(t, rq[1], rq[2], rq[3], rq[4], rq[5]) /\ UNCHANGED notRace
    \/ \E t \in Threads : record_trade_line(t) /\ UNCHANGED notRace

SpecRace == InitRace /\ [][NextRace]_vars

\* ---- rules 4 to 11, each called on its own on the dicts supplied

InitRules ==
    /\ bin_weights \in WeightInputs
    /\ bin_metadata \in RuleMetaInputs
    /\ constraints \in {FullConstraints, get_constraints(ConfigSection)}
    /\ fixed_assignments \in FixedInputs
    /\ alloc_call = NoAllocCall
    /\ bin_status_log \in StatusInputs
    /\ bin_alert_state \in AlertInputs
    /\ rule_call = NoRuleCall
    /\ IdleVix
    /\ InitCoordinator
    /\ RiskExecutionProtocol__init__(10000)
    /\ utc = 0
    /\ rep_call = NoCall
    /\ IdleCallers

NextRules ==
    \/ BinCountAndOverlap /\ UNCHANGED notAlloc
    \/ FuturesAllocation /\ UNCHANGED notAlloc
    \/ MarginMultiplier /\ UNCHANGED notAlloc
    \/ SlippageBuffer /\ UNCHANGED notAlloc
    \/ \E target \in 1..3, d \in RuleDates : RotationLock(target, d) /\ UNCHANGED notAlloc
    \/ NightlyRebalance /\ UNCHANGED notAlloc
    \/ FixedBinModelMapping /\ UNCHANGED notAlloc
    \/ \E d \in RuleDates : WarningPersistence(d) /\ UNCHANGED notAlloc

SpecRules == InitRules /\ [][NextRules]_vars

\* ================================================================ claims

FrozenMsg == "Execution frozen. No further primary entries allowed."

\* C1: in a state where execution_frozen is true, a record_trade call with
\* trade_type="entry" and operation_type="primary" returns the frozen-rejection
\* message and leaves trade_history, trade_timestamps, daily_loss_total,
\* last_trade_time and the three flags unchanged, whatever the other arguments.
C1_FrozenPrimaryEntryRejected ==
    [][ ( /\ execution_frozen
          /\ rep_call'.op = "record_trade"
          /\ rep_call'.trade_type = "entry"
          /\ rep_call'.operation_type = "primary" )
        => ( /\ rep_call'.msg = FrozenMsg
             /\ UNCHANGED <<trade_history, trade_timestamps, daily_loss_total,
                            last_trade_time, execution_frozen, throttle_mode,
                            locked_due_to_freq>> ) ]_vars

\* a frozen protocol with trades on record has just rejected a primary entry
C1_Witness ==
    /\ rep_call.op = "record_trade"
    /\ rep_call.trade_type = "entry" /\ rep_call.operation_type = "primary"
    /\ rep_call.msg = FrozenMsg
    /\ execution_frozen
    /\ Len(trade_history) > 0
    /\ Len(trade_timestamps) > 0

EarlierRejections ==
    { FrozenMsg,
      "Entry frequency exceeded. New primary entries blocked.",
      "Trade size too large. Execution frozen." }

\* C2: a record_trade call with pnl_pct below -0.015 that is not rejected
\* earlier sets execution_frozen, and a true execution_frozen stays true in
\* every step that is not reset_daily_risk.
C2_TradeLossFreezesUntilReset ==
    [][ /\ ( /\ rep_call'.op = "record_trade"
             /\ rep_call'.pnl_pct < -150
             /\ rep_call'.msg \notin EarlierRejections ) => execution_frozen'
        /\ ( execution_frozen /\ rep_call'.op # "reset_daily_risk" )
               => execution_frozen' ]_vars

\* frozen by a single losing trade, and still frozen at a later query
C2_Witness ==
    /\ execution_frozen
    /\ ~locked_due_to_freq
    /\ rep_call.op \in {"validate_trade_request", "should_throttle", "get_status"}
    /\ trade_history # <<>>
    /\ trade_history[Len(trade_history)] < -150
    /\ Abs(daily_loss_total) <= 400

\* C3: validate_trade_request permits exactly when execution_frozen is false
\* and the size is at most (tier maximum) x (confidence multiplier); a size at
\* the scaled limit is permitted; for retail (0.20) and a tag scaling to 1.0,
\* 0.25 is denied and 0.15 is permitted.
C3_ValidatePermitsIffWithinScaledLimit ==
    rep_call.op = "validate_trade_request" =>
        LET size == rep_call.position_size_pct
            mult == _risk_scaling_from_confidence(rep_call.classification)
        IN /\ rep_call.ok <=>
                  ( ~execution_frozen /\ size * 100 <= max_position_size_pct * mult )
           /\ ( tier = "retail" /\ mult = 100 /\ ~execution_frozen ) =>
                  /\ size = 2500 => ~rep_call.ok
                  /\ size = 1500 => rep_call.ok
                  /\ size = 2000 => rep_call.ok

\* a request exactly at the scaled limit was permitted
C3_Witness ==
    /\ rep_call.op = "validate_trade_request"
    /\ rep_call.ok
    /\ tier = "retail"
    /\ rep_call.position_size_pct = 2000
    /\ _risk_scaling_from_confidence(rep_call.classification) = 100

\* C4: every decision record process_signal produces carries the SIS result in
\* suitable and the REP result in permitted, and its final_decision is APPROVED
\* if and only if both are true, REJECTED otherwise.
C4_ApprovedIffSuitableAndPermitted ==
    [][ decision_log' # decision_log =>
          LET d == decision_log'[Len(decision_log')] IN
          /\ tc_call'.kind = "decision" /\ tc_call'.decision = d
          /\ d.suitable = multi_factor_confirm(d.inputs)
          /\ d.suitable =>
                d.permitted = validate_trade_request(d.confidence_tag, d.risk_pct)[1]
          /\ ~d.suitable => ~d.permitted
          /\ d.final_decision \in {"APPROVED", "REJECTED"}
          /\ d.final_decision = "APPROVED" <=> (d.suitable /\ d.permitted) ]_vars

\* the last decision passed SIS, was denied by REP and is REJECTED, after an
\* APPROVED one
C4_Witness ==
    /\ tc_call.kind = "decision"
    /\ tc_call.decision.suitable /\ ~tc_call.decision.permitted
    /\ tc_call.decision.final_decision = "REJECTED"
    /\ \E i \in 1..Len(decision_log) : decision_log[i].final_decision = "APPROVED"

GateOrder == <<"cooldown", "ratelimiter", "sanitizer", "sis", "rep", "tax">>

ThrottleError == "Anomaly throttle active"
RateError == "Rate limit exceeded. Try again later."
PacketError == "Packet rejected"

\* C5: process_signal consults cooldown, RateLimiter, PacketSanitizer,
\* SIS.allow_trade, REP.validate_trade_request in that order and stops at the
\* first that rejects: a cooldown rejection leaves the rate-limiter window alone,
\* a rate-limit or sanitizer rejection appends nothing to the SIS execution log,
\* an SIS rejection calls neither REP.validate_trade_request nor the tax filter.
C5_GatesInOrderShortCircuit ==
    [][ <<clock, rlVars, sisVars, tcVars>>' # <<clock, rlVars, sisVars, tcVars>> =>
          LET o == tc_call'
              g == o.gates
              inCooldown == clock' - last_safe_trade_time < 9041
          IN
          /\ Len(g) >= 1 /\ g = SubSeq(GateOrder, 1, Len(g))
          /\ (o.error = ThrottleError) <=> inCooldown
          /\ (o.error = ThrottleError) <=> (Len(g) = 1)
          /\ o.error = ThrottleError => timestamps' = timestamps
          /\ ~inCooldown => ( /\ timestamps' # <<>>
                              /\ timestamps'[Len(timestamps')] = clock' )
          /\ (o.error = RateError) <=> (~inCooldown /\ Len(timestamps') > burst_limit)
          /\ (o.error = RateError) <=> (Len(g) = 2)
          /\ o.error = PacketError => Len(g) = 3
          /\ o.error \in {ThrottleError, RateError, PacketError} =>
                /\ o.kind = "error"
                /\ execution_log' = execution_log
                /\ decision_log' = decision_log
          /\ o.kind = "decision" =>
                /\ Len(execution_log') = Len(execution_log) + 1
                /\ IF o.decision.suitable
                   THEN g = GateOrder
                   ELSE /\ g = SubSeq(GateOrder, 1, 4)
                        /\ o.decision.tax_notes = <<>>
                        /\ ~o.decision.permitted
                        /\ o.decision.reason = "SIS filter rejected signal" ]_vars

\* a burst was cut off by the rate limiter after an SIS rejection and its
\* cooldown: the SIS log still holds the one entry
C5_Witness ==
    /\ tc_call.error = RateError
    /\ Len(timestamps) = 11
    /\ Len(execution_log) = 1
    /\ Len(decision_log) = 1 /\ ~decision_log[1].suitable
    /\ last_safe_trade_time > 0

\* C6: allow() admits exactly when, after recording the submission and evicting
\* the entries more than 1 second older than it, the window holds at most
\* burst_limit entries, whatever max_packets_per_sec is; with burst_limit = 10
\* the first 10 submissions of one second are admitted and the 11th is rejected.
C6_AdmitsIffWindowWithinBurst ==
    [][ LET recorded == Append(timestamps, clock')
            kept == SelectSeq(recorded, LAMBDA t : clock' - t <= 100)
        IN /\ timestamps' = kept
           /\ rl_ret' <=> (Len(kept) <= burst_limit)
           /\ burst_limit = 10 =>
                 /\ Len(timestamps') \in 1..10 => rl_ret'
                 /\ Len(timestamps') = 11 => ~rl_ret' ]_vars

\* eleven submissions within one second under burst_limit = 10 and the default
\* rate of 5: the last one was rejected
C6_Witness ==
    /\ burst_limit = 10 /\ max_packets_per_sec = 5
    /\ Len(timestamps) = 11
    /\ timestamps[11] - timestamps[1] < 100
    /\ ~rl_ret

\* the evaluation of date d that this step performs looks at a day of the
\* series that has a predecessor, with no red light and no cooldown in force
C7_Evaluates(d) ==
    /\ current_date' = d
    /\ d \in DOMAIN vix_data
    /\ \E p \in DOMAIN vix_data : p < d
    /\ ~RedLightActive(state, d)
    /\ ~YellowCooldownActive(state, d)

C7_Prev(d) == vix_data[PrevDate(vix_data, d)]

C7_Armed(d) == Has(state, "observation_day") /\ state["observation_day"] = d

C7_TriggerArms(d) ==
    (C7_Prev(d) > 30 /\ (C7_Prev(d) - vix_data[d]) * 100 > 8 * C7_Prev(d))
        => /\ vix_ret' = "cooling_triggered"
           /\ Has(state', "observation_day")
           /\ state'["observation_day"] = d + 24

C7_ReboundReverts(d) ==
    (C7_Armed(d) /\ (vix_data[d] - C7_Prev(d)) * 1000 >= 45 * C7_Prev(d))
        => /\ vix_ret' = "revert_to_strict"
           /\ Has(state', "cooldown_until")
           /\ state'["cooldown_until"] = d + 72
           /\ ~Has(state', "observation_day")

C7_Lapses == vix_ret' = "normal" /\ ~Has(state', "observation_day")

\* C7 as stated: a day above 30 dropping by more than 8% returns
\* cooling_triggered and arms the next day; on the armed day a rebound of at
\* least 4.5% returns revert_to_strict with a 72-hour cooldown and no
\* observation_day, and every smaller rebound returns normal and clears
\* observation_day.
C7_AsStated ==
    [][\A d \in Dates : C7_Evaluates(d) =>
          /\ C7_TriggerArms(d)
          /\ C7_ReboundReverts(d)
          /\ (C7_Armed(d) /\ (vix_data[d] - C7_Prev(d)) * 1000 < 45 * C7_Prev(d))
                => C7_Lapses]_vars

\* C7 (amended): a day above 30 dropping by more than 8% returns
\* cooling_triggered and arms observation_day for the next day; on the armed
\* day a rebound of at least 4.5% returns revert_to_strict, sets cooldown_until
\* to that day plus 72 hours and clears observation_day; a smaller change that
\* is not a drop of more than 7% returns normal and clears observation_day.
C7_YellowObservationResolves ==
    [][\A d \in Dates : C7_Evaluates(d) =>
          /\ C7_TriggerArms(d)
          /\ C7_ReboundReverts(d)
          /\ (/\ C7_Armed(d)
              /\ (vix_data[d] - C7_Prev(d)) * 1000 < 45 * C7_Prev(d)
              /\ (C7_Prev(d) - vix_data[d]) * 100 <= 7 * C7_Prev(d))
                => C7_Lapses]_vars

\* a yellow trigger the day before, then a fall of less than 7% on the armed
\* day, which lapsed to normal
C7_Witness ==
    /\ vix_ret = "normal"
    /\ Has(state, "last_trigger_day")
    /\ state["last_trigger_day"] = current_date - 24
    /\ ~Has(state, "observation_day")
    /\ ~Has(state, "cooldown_until")
    /\ current_date \in DOMAIN vix_data
    /\ vix_data[current_date] < vix_data[current_date - 24]

\* the total of a weight mapping lies above the liquidity ceiling
C8_OverCeiling(bw) == Sum(bw.w) > (1000 - constraints.liquidity_reserve) * bw.den

\* after is before with every weight multiplied by (1 - liquidity_reserve) / total
C8_ScaledByCeilingOverTotal(before, after) ==
    /\ DOMAIN after.w = DOMAIN before.w
    /\ \A b \in DOMAIN before.w :
          after.w[b] * Sum(before.w) =
              before.w[b] * (1000 - constraints.liquidity_reserve) * after.den
    /\ Sum(after.w) = (1000 - constraints.liquidity_reserve) * after.den
    /\ \A a, b \in DOMAIN before.w : after.w[a] * before.w[b] = after.w[b] * before.w[a]

\* rules 2 and 3 find nothing to do once rule 1 has scaled
C8_RuleOneSuffices(bw) ==
    /\ constraints.manual_trading_allocation <= constraints.liquidity_reserve
    /\ \A b \in DOMAIN bw.w :
          bw.w[b] * (1000 - constraints.liquidity_reserve)
              <= constraints.max_bin_weight * Sum(bw.w)

\* C8: rule 1 multiplies every weight by (1 - liquidity_reserve) / total when the
\* total exceeds 1 - liquidity_reserve, so that the new total is the ceiling and
\* the ratios are kept, and leaves the weights alone otherwise; the rejecting
\* rules of enforce_allocation_rules are handed the weights rule 1 has scaled.
C8_RuleOneScalesBeforeRejecting ==
    [][/\ alloc_call'.op = "enforce_liquidity_reserve_only" =>
             IF C8_OverCeiling(bin_weights)
             THEN C8_ScaledByCeilingOverTotal(bin_weights, bin_weights')
             ELSE bin_weights' = bin_weights
       /\ (alloc_call'.op = "enforce_allocation_rules" /\ C8_OverCeiling(bin_weights)) =>
             /\ alloc_call'.submitted = bin_weights
             /\ ~C8_OverCeiling(alloc_call'.checked)
             /\ C8_RuleOneSuffices(bin_weights) =>
                   C8_ScaledByCeilingOverTotal(bin_weights, alloc_call'.checked)]_vars

\* bins summing to 0.95 under a reserve of 0.10 went through enforce_allocation_rules
\* and its rejecting rules saw them scaled by 0.90 / 0.95
C8_Witness ==
    /\ alloc_call.op = "enforce_allocation_rules"
    /\ alloc_call.submitted = Weights(Example95)
    /\ constraints.liquidity_reserve = 100
    /\ constraints.max_bin_weight = 600
    /\ alloc_call.checked.w[1] * 950 = 60 * 900 * alloc_call.checked.den
    /\ alloc_call.raised

\* the futures-tagged bins of a weight mapping sum to more than 0.05
C9_FuturesOverCap(bw) ==
    Sum([b \in DOMAIN bw.w |->
            IF /\ b \in DOMAIN bin_metadata
               /\ "type" \in DOMAIN bin_metadata[b]
               /\ bin_metadata[b]["type"] = "futures"
            THEN bw.w[b] ELSE 0]) > 50 * bw.den

\* C9: whenever the futures bins of the mapping submitted to
\* enforce_allocation_rules sum to more than 0.05, the call raises a futures
\* exposure violation, whether or not rules 1-3 scaled or clipped first.
C9_SubmittedFuturesOverCapRaises ==
    [][(alloc_call'.op = "enforce_allocation_rules" /\ C9_FuturesOverCap(bin_weights)) =>
          /\ alloc_call'.raised
          /\ alloc_call'.error = "Futures exposure violation"]_vars

C10_ModelOf(meta, b) == IF "model" \in DOMAIN meta[b] THEN meta[b]["model"] ELSE "None"

C10_AssignedTo(b) == IF b \in DOMAIN fixed_assignments THEN fixed_assignments[b] ELSE "None"

\* C10: metadata in which a bin with a fixed assignment carries another model is
\* rejected by enforce_fixed_bin_model_mapping, metadata in which every bin's
\* model is its fixed assignment is accepted, and the check changes neither the
\* assignments nor the metadata.
C10_FixedMappingHolds ==
    [][alloc_call'.op = "enforce_fixed_bin_model_mapping" =>
          /\ (\E b \in DOMAIN fixed_assignments \cap DOMAIN alloc_call'.metadata :
                 C10_ModelOf(alloc_call'.metadata, b) # fixed_assignments[b])
                => ~alloc_call'.ok
          /\ (\A b \in DOMAIN alloc_call'.metadata :
                 C10_ModelOf(alloc_call'.metadata, b) = C10_AssignedTo(b))
                => alloc_call'.ok
          /\ fixed_assignments' = fixed_assignments
          /\ bin_metadata' = alloc_call'.metadata]_vars

\* bin 2, assigned to mean_reversion, was presented under trend and refused
C10_Witness ==
    /\ alloc_call.op = "enforce_fixed_bin_model_mapping"
    /\ 2 \in DOMAIN fixed_assignments
    /\ fixed_assignments[2] = "mean_reversion"
    /\ 2 \in DOMAIN bin_metadata
    /\ "model" \in DOMAIN bin_metadata[2]
    /\ bin_metadata[2]["model"] = "trend"
    /\ ~alloc_call.ok
    /\ alloc_call.bin_name = 2

\* this step is a call of op on the SignalIsolationSystem
SisStep(op) == sis_call'.op = op /\ Len(sis_trace') = Len(sis_trace) + 1

TrueFlags(signal_packet) ==
    Cardinality({k \in DOMAIN signal_packet.inputs : signal_packet.inputs[k] = TRUE})

\* C11: allow_trade returns true exactly when at least 3 flags of the packet's
\* inputs are true, and every call appends exactly one entry to execution_log,
\* whose approved field is the returned value and whose overridden field is false.
C11_AllowTradeDecidesAndLogs ==
    [][SisStep("allow_trade") =>
          /\ sis_call'.ret = (TrueFlags(sis_call'.signal_packet) >= 3)
          /\ Len(execution_log') = Len(execution_log) + 1
          /\ SubSeq(execution_log', 1, Len(execution_log)) = execution_log
          /\ execution_log'[Len(execution_log')].approved = sis_call'.ret
          /\ execution_log'[Len(execution_log')].overridden = FALSE]_vars

\* a signal with two agreeing domains was refused, and the refusal is in the log
C11_Witness ==
    /\ sis_call.op = "allow_trade"
    /\ TrueFlags(sis_call.signal_packet) = 2
    /\ ~sis_call.ret
    /\ execution_log # <<>>
    /\ ~execution_log[Len(execution_log)].approved
    /\ ~execution_log[Len(execution_log)].overridden

\* C12: while override_enabled is true trigger_override returns true whatever the
\* packet's inputs are and appends exactly one record to override_log and exactly
\* one entry, approved and overridden, to execution_log; while it is false the
\* call returns false and leaves both logs as they were.
C12_OverrideOnlyWhileEnabled ==
    [][SisStep("trigger_override") =>
          IF override_enabled
          THEN /\ sis_call'.ret
               /\ Len(override_log') = Len(override_log) + 1
               /\ SubSeq(override_log', 1, Len(override_log)) = override_log
               /\ override_log'[Len(override_log')].signal_id = sis_call'.signal_packet.id
               /\ Len(execution_log') = Len(execution_log) + 1
               /\ SubSeq(execution_log', 1, Len(execution_log)) = execution_log
               /\ execution_log'[Len(execution_log')].approved
               /\ execution_log'[Len(execution_log')].overridden
          ELSE /\ ~sis_call'.ret
               /\ override_log' = override_log
               /\ execution_log' = execution_log]_vars

\* a signal with two agreeing domains only went through by override, and both
\* logs have it
C12_Witness ==
    /\ sis_call.op = "trigger_override"
    /\ TrueFlags(sis_call.signal_packet) = 2
    /\ sis_call.ret
    /\ override_enabled
    /\ Len(override_log) = 1
    /\ Len(execution_log) = 1
    /\ execution_log[1].approved /\ execution_log[1].overridden

\* lockdown is among the calls made so far
LockedDown(trace) == \E i \in DOMAIN trace : trace[i].op = "lockdown"

C14_Enabled(i) == ~LockedDown(SubSeq(sis_trace, 1, i - 1))

C14_Overrode(i) == sis_trace[i].op = "trigger_override" /\ C14_Enabled(i)

C14_Logged(i) == sis_trace[i].op = "allow_trade" \/ C14_Overrode(i)

C14_Approved(i) ==
    \/ C14_Overrode(i)
    \/ /\ sis_trace[i].op = "allow_trade"
       /\ Cardinality({k \in DOMAIN sis_trace[i].inputs : sis_trace[i].inputs[k]}) >= 3

\* C14: the compliance summary is three counts - entries logged, approved,
\* overridden - fixed by the operations and flags of the calls made, so that
\* histories differing only in signal ids, timestamps, users or justifications
\* give the same summary; and every execution_log entry holds the hash of the
\* signal id, never the id.
C14_SummaryHidesIdentities ==
    /\ sis_call.op = "generate_compliance_summary" =>
          /\ DOMAIN sis_call.summary =
                 {"executions_logged", "approved_trades", "overrides_used"}
          /\ sis_call.summary.executions_logged =
                 Cardinality({i \in DOMAIN sis_trace : C14_Logged(i)})
          /\ sis_call.summary.approved_trades =
                 Cardinality({i \in DOMAIN sis_trace : C14_Approved(i)})
          /\ sis_call.summary.overrides_used =
                 Cardinality({i \in DOMAIN sis_trace : C14_Overrode(i)})
    /\ \A i \in DOMAIN execution_log :
          /\ DOMAIN execution_log[i] =
                 {"signal_id_hash", "timestamp", "approved", "overridden", "meta"}
          /\ DOMAIN execution_log[i].meta = {"input_count", "agree_count"}
          /\ execution_log[i].signal_id_hash[1] = "sha256"

\* two signals with different ids were logged, one approved and one overridden,
\* and the summary was then drawn
C14_Witness ==
    /\ sis_call.op = "generate_compliance_summary"
    /\ sis_call.summary =
           [executions_logged |-> 2, approved_trades |-> 1, overrides_used |-> 1]
    /\ Len(execution_log) = 2
    /\ execution_log[1].signal_id_hash # execution_log[2].signal_id_hash
    /\ execution_log[1].timestamp # execution_log[2].timestamp

\* C15: a packet whose timestamp is not valid ISO-8601, lies in the future or is
\* older than 5 minutes is rejected at the PacketSanitizer gate of process_signal
\* with a packet-rejected error, so that no decision is ever made on it and SIS
\* is never consulted about it.
C15_BadTimestampRejected ==
    [][(tc_call' # tc_call /\ tc_call'.kind = "decision") =>
          validate_timestamp(tc_call'.decision.timestamp, clock') = "ok"]_vars

\* the last process_signal call ended in a rejection: by the rate limiter, by
\* the sanitizer, by SIS or by REP
C16_Rejected(o) ==
    /\ o.op = "process_signal"
    /\ \/ o.error = RateError
       \/ o.error = PacketError
       \/ o.kind = "decision" /\ o.decision.final_decision = "REJECTED"

\* C16, for two calls in a row: a process_signal call made less than
\* anomaly_cooldown after a call that ended in a rejection returns the
\* anomaly-throttle error and consults no gate, and a call made anomaly_cooldown
\* or more after the previous call is not stopped by the cooldown.
C16_RejectionStartsQuietPeriod ==
    [][ <<clock, rlVars, sisVars, tcVars>>' # <<clock, rlVars, sisVars, tcVars>> =>
          /\ (C16_Rejected(tc_call) /\ clock' - clock < 9041) =>
                /\ tc_call'.error = ThrottleError
                /\ tc_call'.gates = <<"cooldown">>
          /\ (tc_call.op = "process_signal" /\ clock' - clock >= 9041) =>
                tc_call'.error # ThrottleError ]_vars

\* C17: after every record_trade call that leaves the absolute value of
\* daily_loss_total above the throttle trigger 0.025, throttle_mode is true,
\* also when that call froze execution.
C17_ThrottleAboveTrigger ==
    (rep_call.op = "record_trade" /\ Abs(daily_loss_total) > 250) => throttle_mode

FrequencyMsg == "Entry frequency exceeded. New primary entries blocked."

\* the per-hour cap of the account's tier
C18_Cap == IF account_equity < 2000 THEN 8 ELSE IF account_equity < 25000 THEN 6 ELSE 4

\* primary entries already made inside the hour that ends now (an hour is 2 units)
C18_InHour == Cardinality({i \in DOMAIN trade_timestamps : utc - trade_timestamps[i] < 2})

\* C18: on a protocol that is not frozen, a primary entry within the size limit
\* that is at most the N-th inside its hour is recorded, and returns "Trade
\* recorded." when within the loss limits; the (N+1)-th inside the hour returns
\* the frequency message, sets execution_frozen and locked_due_to_freq and adds
\* nothing to trade_history or daily_loss_total, whatever its size (the
\* frequency check comes before the size check).
C18_HourlyCapThenFreeze ==
    [][(/\ rep_call'.op = "record_trade"
        /\ rep_call'.trade_type = "entry" /\ rep_call'.operation_type = "primary"
        /\ trade_timestamps' # trade_timestamps
        /\ ~execution_frozen) =>
          IF C18_InHour < C18_Cap
          THEN /\ rep_call'.msg # FrequencyMsg
               /\ ~locked_due_to_freq'
               /\ rep_call'.position_size_pct = 1500 =>
                     /\ trade_history' = Append(trade_history, rep_call'.pnl_pct)
                     /\ (rep_call'.pnl_pct >= -150 /\ Abs(daily_loss_total') <= 400) =>
                           rep_call'.msg = "Trade recorded."
          ELSE /\ rep_call'.msg = FrequencyMsg
               /\ execution_frozen' /\ locked_due_to_freq'
               /\ trade_history' = trade_history
               /\ daily_loss_total' = daily_loss_total]_vars

\* a pro account recorded four entries, and a fifth, oversized one inside the
\* same hour was met with the frequency message, not the size message
C18_Witness ==
    /\ account_equity = 30000
    /\ rep_call.op = "record_trade"
    /\ rep_call.msg = FrequencyMsg
    /\ rep_call.position_size_pct = 2500
    /\ Len(trade_history) = 4
    /\ execution_frozen /\ locked_due_to_freq

\* series on either side of the 38 ceiling, with and without gaps
C19_Series == UNION {[D -> {26, 31, 37, 39, 41}] : D \in SUBSET Dates}

\* the filter, evaluated on day d of data in the regime reached, left the red
\* regime
C19_Exits(data, d) ==
    LET r == vix_whipsaw_filter(d, data, state)
    IN /\ r[1] = "normal"
       /\ ~Has(r[2], "red_light_until")
       /\ ~Has(r[2], "volatility_floor")

\* C19: a red regime, once entered, can end before red_light_until: on a day not
\* after red_light_until the filter either leaves the regime (removing
\* red_light_until and volatility_floor, returning normal) or returns
\* red_light_active with the floor stored in volatility_floor, and there are
\* series for which it leaves.
C19_RedLightCanEndEarly ==
    Has(state, "red_light_until") =>
       /\ \A data \in C19_Series : \A d \in DOMAIN data :
             d <= state["red_light_until"] =>
                LET r == vix_whipsaw_filter(d, data, state)
                IN \/ C19_Exits(data, d)
                   \/ r[1] = "red_light_active" /\ Has(r[2], "volatility_floor")
       /\ \E data \in C19_Series : \E d \in DOMAIN data :
             d <= state["red_light_until"] /\ C19_Exits(data, d)

C21_RedCount(st) == IF Has(st, "red_count") THEN st["red_count"] ELSE 0

C21_Evaluates(d) ==
    /\ current_date' = d
    /\ d \in DOMAIN vix_data
    /\ \E p \in DOMAIN vix_data : p < d
    /\ Has(state, "observe_red_on") /\ state["observe_red_on"] = d
    /\ Has(state, "red_watch") /\ state["red_watch"]

C21_Rebound(d) ==
    (vix_data[d] - C7_Prev(d)) * 100 >= 4 * C7_Prev(d)

C21_Escalates(d) ==
    C21_Rebound(d)
        => /\ C21_RedCount(state') = C21_RedCount(state) + 1
           /\ Has(state', "red_light_until")
           /\ state'["red_light_until"] =
                  d + (IF C21_RedCount(state') = 1 THEN 72 ELSE 144)

C21_WatchCleared ==
    /\ vix_ret' = "normal"
    /\ ~Has(state', "observe_red_on")
    /\ Has(state', "red_watch") /\ ~state'["red_watch"]

C21_Dismisses(d) == ~C21_Rebound(d) => C21_WatchCleared

C21_NeverDecreases == C21_RedCount(state') >= C21_RedCount(state)

\* the claim as stated: every smaller rebound dismisses the watch
C21_AsStated ==
    [][/\ C21_NeverDecreases
       /\ \A d \in EscalationDates :
            C21_Evaluates(d) => C21_Escalates(d) /\ C21_Dismisses(d)]_vars

\* C21 as amended: the watch is dismissed by a smaller rebound that is not
\* itself a drop of more than 7%, which re-arms the watch for the next day
C21_RedObservationResolves ==
    [][/\ C21_NeverDecreases
       /\ \A d \in EscalationDates :
            C21_Evaluates(d)
                => /\ C21_Escalates(d)
                   /\ (C7_Prev(d) - vix_data[d]) * 100 <= 7 * C7_Prev(d)
                          => C21_Dismisses(d)]_vars

\* a second red light, 144 hours long
C21_Witness ==
    /\ C21_RedCount(state) = 2
    /\ vix_ret = "red_light_active"
    /\ Has(state, "red_light_until")
    /\ state["red_light_until"] = current_date + 144


\* ---- C22: for a date absent from the series the filter returns normal and
\* leaves the regime state unchanged, also while a red light or a cooldown is
\* active for that date

C22_MissingDateIsNormal ==
    [][\A d \in EscalationDates :
         (current_date' = d /\ d \notin DOMAIN vix_data)
             => vix_ret' = "normal" /\ state' = state]_vars

C22_Witness ==
    /\ current_date \notin DOMAIN vix_data
    /\ vix_ret = "normal"
    /\ RedLightActive(state, current_date)

C22_WitnessCooldown ==
    /\ current_date \notin DOMAIN vix_data
    /\ vix_ret = "normal"
    /\ YellowCooldownActive(state, current_date)


\* two active bins are recorded with the same underlying
C23_SharedUnderlying ==
    \E a, b \in DOMAIN bin_weights.w :
        /\ a # b
        /\ a \in DOMAIN bin_metadata /\ b \in DOMAIN bin_metadata
        /\ "underlying" \in DOMAIN bin_metadata[a]
        /\ "underlying" \in DOMAIN bin_metadata[b]
        /\ bin_metadata[a]["underlying"] = bin_metadata[b]["underlying"]

C23_Active == Cardinality(DOMAIN bin_weights.w)

\* C23: enforce_bin_count_and_overlap rejects exactly when more than 25 bins are
\* active, or more than 20 while two active bins share an underlying; 21 to 25
\* bins whose underlyings are pairwise different or unknown are accepted; the
\* weights are never changed.
C23_RejectsExactlyOnCountOrOverlap ==
    [][rule_call'.op = "enforce_bin_count_and_overlap" =>
          /\ ~rule_call'.ok <=> \/ C23_Active > 25
                                \/ C23_Active > 20 /\ C23_SharedUnderlying
          /\ bin_weights' = bin_weights]_vars


\* the bin about to rotate has last_rotation_date equal to the date of the call
C24_TargetRotatedToday ==
    /\ rule_call'.target \in DOMAIN bin_metadata
    /\ "last_rotation_date" \in DOMAIN bin_metadata[rule_call'.target]
    /\ bin_metadata[rule_call'.target]["last_rotation_date"] = rule_call'.date

\* C24: the rotation lock rejects a rotation of a target bin exactly when that
\* bin's last rotation date is the current date; a bin that has not rotated
\* today may rotate even if other bins already rotated today.
C24_LockIsPerTargetBin ==
    [][rule_call'.op = "enforce_bin_rotation_lock" =>
          (~rule_call'.ok <=> C24_TargetRotatedToday)]_vars


C25_Rules ==
    {"enforce_bin_count_and_overlap", "enforce_futures_allocation",
     "enforce_margin_multiplier", "enforce_slippage_buffer",
     "enforce_bin_rotation_lock", "enforce_nightly_rebalance",
     "enforce_fixed_bin_model_mapping", "enforce_warning_persistence"}

\* C25: each of the rule 4 to rule 11 functions only reports a result and leaves
\* the bin weights, bin metadata, bin status and alert state it is given
\* unchanged.
C25_RulesFourToElevenLeaveArguments ==
    [][rule_call'.op \in C25_Rules =>
          /\ bin_weights' = bin_weights
          /\ bin_metadata' = bin_metadata
          /\ bin_status_log' = bin_status_log
          /\ bin_alert_state' = bin_alert_state
          /\ constraints' = constraints
          /\ fixed_assignments' = fixed_assignments]_vars


\* C26: when the callers of record_trade hold mutual exclusion on the account,
\* so that each call runs as one atomic step, no primary entry is appended to
\* trade_history once execution_frozen is true; without it, two calls
\* interleaved statement by statement can both pass the frozen gate and the
\* limit checks before either freezes, and one then appends after the freeze.
C26_MutualExclusionKeepsFreezeTerminal == mutex => ~late_entry

\* unserialised callers: a primary entry went into trade_history after the freeze
C26_Witness ==
    /\ ~mutex
    /\ late_entry
    /\ execution_frozen
    /\ Len(trade_history) > Len(PriorWins)


\* the registered splits of the symbol dated at or before the date
C27_Applicable(symbol, date_str) ==
    {i \in DOMAIN split_log :
        split_log[i].symbol = symbol /\ split_log[i].date <= date_str}

\* those of them with the latest date
C27_MostRecent(symbol, date_str) ==
    {i \in C27_Applicable(symbol, date_str) :
        \A j \in C27_Applicable(symbol, date_str) : split_log[j].date <= split_log[i].date}

\* C27: get_split_factor(symbol, date) returns the factor of the latest-dated
\* registered split of the symbol dated at or before the date, whatever the
\* order of registration and the number of splits, and 1.0 when there is none.
C27_ReturnsMostRecentSplit ==
    [][split_call'.op = "get_split_factor" =>
          LET recent == C27_MostRecent(split_call'.symbol, split_call'.date_str)
          IN IF recent = {} THEN split_call'.ret = 1
             ELSE \E i \in recent : split_call'.ret = split_log[i].factor]_vars


\* the constraints each rule reads
C28_Reads ==
    [enforce_liquidity_reserve_only |-> {"liquidity_reserve"},
     enforce_manual_reserve_only |-> {"manual_trading_allocation"},
     enforce_per_bin_maximum |-> {"max_bin_weight"},
     enforce_margin_multiplier |-> {"liquidity_reserve", "manual_trading_allocation"},
     enforce_slippage_buffer |-> {"slippage_budget"}]

\* C28: a rule given constraints that lack a constraint it reads rejects the
\* evaluation; none proceeds with a built-in default in place of the missing
\* constraint.
C28_MissingConstraintRejects ==
    [][\A op \in DOMAIN C28_Reads :
          (rule_call'.op = op /\ ~(C28_Reads[op] \subseteq DOMAIN constraints))
              => rule_call'.raised # ""]_vars


\* this step is a primary-entry record_trade call that got past the frozen gate
C29_WindowUpdated ==
    /\ rep_call'.op = "record_trade"
    /\ IsPrimaryEntry(rep_call'.trade_type, rep_call'.operation_type)
    /\ rep_call'.msg # FrozenMsg

\* C29: after every primary-entry record_trade call that reaches the window
\* update, each timestamp kept in trade_timestamps is less than 3600 seconds
\* older than the call time; entries an hour old or older, also those more than
\* 24 hours old, are evicted.
C29_WindowHoldsTrailingHour ==
    [][C29_WindowUpdated =>
          \A i \in DOMAIN trade_timestamps' :
              utc - trade_timestamps'[i] < SecondsPerHour]_vars


\* C30: in every state reached through record_trade and reset_daily_risk, a
\* daily_loss_total beyond the daily limit of 0.04 in absolute value means
\* execution_frozen; daily_loss_total is never positive, and between resets it
\* never moves toward zero.
C30_DailyLossFreezesAndOnlyGrows ==
    [][/\ Abs(daily_loss_total') > max_daily_drawdown_pct => execution_frozen'
       /\ daily_loss_total' <= 0
       /\ rep_call'.op # "reset_daily_risk" => daily_loss_total' <= daily_loss_total]_vars

\* three losses of 1.5% each took the day past 4% and froze the protocol
C30_Witness ==
    /\ rep_call.op = "record_trade"
    /\ rep_call.msg = "Daily loss limit exceeded. Execution frozen."
    /\ Abs(daily_loss_total) > max_daily_drawdown_pct
    /\ execution_frozen


\* the earlier sequence is kept as the start of the later one
IsPrefix(earlier, later) ==
    /\ Len(earlier) <= Len(later)
    /\ \A i \in DOMAIN earlier : later[i] = earlier[i]

C31_ResetClears ==
    /\ daily_loss_total' = 0
    /\ trade_history' = <<>>
    /\ trade_timestamps' = <<>>
    /\ ~execution_frozen'
    /\ ~throttle_mode'
    /\ ~locked_due_to_freq'
    /\ account_equity' = account_equity
    /\ tier' = tier
    /\ max_position_size_pct' = max_position_size_pct
    /\ max_trades_per_hour' = max_trades_per_hour

C31_OthersKeep ==
    /\ throttle_mode => throttle_mode'
    /\ locked_due_to_freq => locked_due_to_freq'
    /\ IsPrefix(trade_history, trade_history')

\* C31: reset_daily_risk zeroes daily_loss_total, empties trade_history and
\* trade_timestamps and clears the three flags, leaving the equity, the tier and
\* its limits; no other operation clears throttle_mode or locked_due_to_freq or
\* removes a trade from trade_history; locked_due_to_freq is never true while
\* execution_frozen is false.
C31_OnlyResetClears ==
    [][/\ rep_call'.op = "reset_daily_risk" => C31_ResetClears
       /\ rep_call'.op # "reset_daily_risk" => C31_OthersKeep
       /\ locked_due_to_freq' => execution_frozen']_vars

\* a reset that followed recorded trades: the history is gone, the time of the
\* last trade is kept
C31_Witness ==
    /\ rep_call.op = "reset_daily_risk"
    /\ last_trade_time # None
    /\ trade_history = <<>>
    /\ trade_timestamps = <<>>
    /\ daily_loss_total = 0
    /\ ~execution_frozen /\ ~throttle_mode /\ ~locked_due_to_freq


\* the size asked for is above the tier limit scaled by the tag's multiplier
C32_Oversized(classification, position_size_pct) ==
    position_size_pct * 100 >
        max_position_size_pct * _risk_scaling_from_confidence(classification)

\* C32: validate_trade_request changes no field of the protocol, so a size
\* denial through it never sets execution_frozen; an oversized primary entry
\* passed to record_trade sets execution_frozen and is not appended to
\* trade_history.
C32_ValidateIsPureRecordFreezes ==
    [][/\ rep_call'.op = "validate_trade_request" => UNCHANGED repFields
       /\ ( /\ rep_call'.op = "record_trade"
            /\ IsPrimaryEntry(rep_call'.trade_type, rep_call'.operation_type)
            /\ C32_Oversized(rep_call'.classification, rep_call'.position_size_pct) )
              => execution_frozen' /\ trade_history' = trade_history]_vars

\* a request was denied for its size and the protocol is not frozen
C32_Witness ==
    /\ rep_call.op = "validate_trade_request"
    /\ ~rep_call.ok
    /\ C32_Oversized(rep_call.classification, rep_call.position_size_pct)
    /\ ~execution_frozen

\* an oversized primary entry froze the protocol
C32_WitnessRecord ==
    /\ rep_call.op = "record_trade"
    /\ rep_call.msg = "Trade size too large. Execution frozen."
    /\ execution_frozen


\* C33: a process_signal call that ends in the packet-rejected error changes
\* nothing: the rate-limiter window, last_safe_trade_time, decision_log, the SIS
\* logs and the RiskExecutionProtocol fields are after the call what they were
\* before it.
C33_PacketRejectedMutatesNothing ==
    [][\A g \in TCGaps, p \in Packets :
          (process_signal(g, p) /\ tc_call'.error = PacketError) =>
              UNCHANGED <<timestamps, last_safe_trade_time, decision_log,
                          execution_log, override_log, repFields>>]_vars


\* the smaller of the two ceilings rules 1 and 2 scale to
C34_Ceiling(c) ==
    IF c.liquidity_reserve >= c.manual_trading_allocation
    THEN One - c.liquidity_reserve
    ELSE One - c.manual_trading_allocation

\* the weight of bin b once rules 1 and 2 have run on the submitted weights, as
\* the fraction <<numerator, denominator>>
C34_PreClip(sub, c, b) ==
    IF Sum(sub.w) > C34_Ceiling(c) * sub.den
    THEN <<sub.w[b] * C34_Ceiling(c), Sum(sub.w)>>
    ELSE <<sub.w[b], sub.den>>

C35_NotEvaluatedOn(x) == ~(current_date' = x /\ x \in DOMAIN vix_data)

\* key k of the state dict is kept by this step, or set anew by the trigger
\* that returns the decision given
C35_StaysArmed(k, decision) ==
    /\ Has(state', k)
    /\ \/ state'[k] = state[k]
       \/ vix_ret' = decision /\ state'[k] = current_date' + HoursPerDay

\* C35: a yellow observation_day or a red watch (red_watch with observe_red_on)
\* armed for a day is resolved by no step other than an evaluation of the
\* filter on that day as an in-series date: every other evaluation, on a missing
\* date or on another day, leaves observation_day / observe_red_on set and
\* red_watch true, with the day they were armed for unless a new trigger
\* re-arms them for the day after the evaluation.
C35_UnevaluatedWatchStaysArmed ==
    [][/\ (Has(state, "observation_day")
              /\ C35_NotEvaluatedOn(state["observation_day"]))
          => C35_StaysArmed("observation_day", "cooling_triggered")
       /\ (Has(state, "observe_red_on") /\ Has(state, "red_watch") /\ state["red_watch"]
              /\ C35_NotEvaluatedOn(state["observe_red_on"]))
          => /\ C35_StaysArmed("observe_red_on", "red_watch_triggered")
             /\ Has(state', "red_watch") /\ state'["red_watch"]]_vars

\* a red watch armed for a day missing from the series is still armed after the
\* filter was evaluated on that day and on a later one
C35_Witness ==
    /\ Has(state, "observe_red_on") /\ Has(state, "red_watch") /\ state["red_watch"]
    /\ state["observe_red_on"] \notin DOMAIN vix_data
    /\ current_date > state["observe_red_on"]
    /\ current_date \in DOMAIN vix_data
    /\ vix_ret = "normal"

\* a yellow observation armed for a day missing from the series is still armed
\* on a later in-series day
C35_WitnessYellow ==
    /\ Has(state, "observation_day")
    /\ state["observation_day"] \notin DOMAIN vix_data
    /\ current_date > state["observation_day"]
    /\ current_date \in DOMAIN vix_data
    /\ vix_ret = "normal"


\* this step evaluates an in-series date while a cooldown is on and no red
\* light is
C36_InCooldown ==
    /\ current_date' \in DOMAIN vix_data
    /\ Has(state, "cooldown_until") /\ current_date' <= state["cooldown_until"]
    /\ ~(Has(state, "red_light_until") /\ current_date' <= state["red_light_until"])

\* this step evaluates an in-series date while a red light is on
C36_InRedLight ==
    /\ current_date' \in DOMAIN vix_data
    /\ Has(state, "red_light_until") /\ current_date' <= state["red_light_until"]

\* C36: with no active red light, an evaluation on an in-series date not after
\* cooldown_until returns cooldown_active and leaves the state unchanged, so no
\* yellow observation and no red watch is armed; with a red light active, in a
\* cooldown or not, the evaluation returns what the red-light branch returns,
\* red_light_active or normal, and arms nothing either.
C36_CooldownSuppressesTriggers ==
    [][/\ C36_InCooldown => vix_ret' = "cooldown_active" /\ state' = state
       /\ C36_InRedLight =>
             /\ vix_ret' \in {"red_light_active", "normal"}
             /\ \A k \in {"observation_day", "observe_red_on", "red_watch",
                          "cooldown_until"} :
                    /\ Has(state', k) = Has(state, k)
                    /\ Has(state, k) => state'[k] = state[k]]_vars

\* a drop of more than 8% from a close above 30 was evaluated during a cooldown
\* and armed nothing
C36_Witness ==
    /\ vix_ret = "cooldown_active"
    /\ current_date \in DOMAIN vix_data
    /\ \E p \in DOMAIN vix_data : p < current_date
    /\ YellowTrigger(vix_data[PrevDate(vix_data, current_date)], vix_data[current_date])
    /\ ~Has(state, "observation_day")
    /\ ~Has(state, "red_light_until")

\* a date inside both a red light and a cooldown was decided by the red light
C36_WitnessBoth ==
    /\ vix_ret = "red_light_active"
    /\ RedLightActive(state, current_date)
    /\ YellowCooldownActive(state, current_date)


C38_EveryCallReturnsRecord ==
    tc_call.op = "process_signal" =>
        \/ tc_call.kind = "error"
        \/ /\ tc_call.kind = "decision"
           /\ tc_call.decision.final_decision \in {"APPROVED", "REJECTED"}


\* C39: with a liquidity reserve of 10%, the weights that rules 1 and 2 leave
\* of a submitted mapping total, together with manual_trading_allocation, at
\* most 0.90: the bins stay out of the liquidity reserve and the manual
\* allocation taken together.
C39_BinsLeaveBothReserves ==
    (alloc_call.op = "enforce_allocation_rules" /\ constraints.liquidity_reserve = 100) =>
        LET bw == enforce_manual_reserve_only(
                      enforce_liquidity_reserve_only(alloc_call.submitted, constraints),
                      constraints)
        IN Sum(bw.w) + constraints.manual_trading_allocation * bw.den
               <= (One - constraints.liquidity_reserve) * bw.den


\* C40: no process_signal call changes a field of the RiskExecutionProtocol,
\* whatever it decides and however many signals it approved within the hour:
\* trade_timestamps, trade_history, daily_loss_total and the frozen, throttle
\* and lock flags move only in steps of record_trade and reset_daily_risk.
C40_ProcessSignalLeavesProtocol ==
    [][/\ (\E g \in ApprovalGaps, p \in ApprovalPackets :
              process_signal_bounded(MaxApprovals, g, p))
          => UNCHANGED repFields
       /\ repFields' # repFields
          => rep_call'.op \in {"record_trade", "reset_daily_risk"}]_vars

\* more signals than the tier's hourly cap were approved within the hour, the
\* last by the last call, and the protocol counted none of them
C40_Witness ==
    /\ Len(decision_log) > max_trades_per_hour
    /\ \A i \in DOMAIN decision_log : decision_log[i].final_decision = "APPROVED"
    /\ tc_call.kind = "decision"
    /\ clock - StartTime < 360000
    /\ trade_timestamps = <<>>
    /\ trade_history = <<>>
    /\ daily_loss_total = 0
    /\ ~execution_frozen /\ ~throttle_mode /\ ~locked_due_to_freq

====
